---- MODULE Spec2Model ----
(***************************************************************************)
(* A model of the Bitcoin Cash authentication virtual machine of           *)
(* bitcoin-ts: the instruction set (before / clone / continue and the      *)
(* operators of push.ts and crypto.ts) and the unlocking -> locking ->     *)
(* P2SH phase pipeline of bitcoin-cash.ts, in its evaluate and its debug   *)
(* form.                                                                   *)
(*                                                                         *)
(* JavaScript arrays are objects: a stack handed from one phase to the     *)
(* next is the same array unless it is copied.  The model keeps every      *)
(* stack array in `heap` and program states hold a reference (an index of  *)
(* `heap`), so that sharing and copying are told apart.                    *)
(***************************************************************************)
EXTENDS Integers, Sequences, FiniteSets, TLC

(***************************************************************************)
(* Bounds of the model.                                                    *)
(***************************************************************************)
\* longest unlocking script drawn from ScriptAlphabet
MaxUnlockingLength == 3
\* longest locking script drawn from LockingAlphabet
MaxLockingLength == 2

(***************************************************************************)
(* Opcode values (bitcoin-cash-opcodes.ts).                                *)
(***************************************************************************)
OP_0 == 0
OP_PUSHBYTES_1 == 1
OP_PUSHBYTES_2 == 2
OP_PUSHBYTES_20 == 20
OP_PUSHBYTES_75 == 75
OP_1NEGATE == 79
OP_1 == 81
OP_16 == 96
OP_EQUAL == 135
OP_HASH160 == 169

OP_PUSHDATA1 == 76
OP_PUSHDATA2 == 77
OP_PUSHDATA4 == 78
OP_DUP == 118
OP_EQUALVERIFY == 136
OP_CHECKSIG == 172
OP_CHECKMULTISIG == 174

\* CommonConsensus.maximumOperationCount
maximumOperationCount == 201

\* enum PayToScriptHash { length = 23, lastElement = 22 }
PayToScriptHashLength == 23
PayToScriptHashLastElement == 22

\* the value of `error` when it is undefined
NoError == "undefined"

(***************************************************************************)
(* Uint8Array helpers.  Scripts and stack elements are sequences of bytes; *)
(* JavaScript indexes them from 0.                                         *)
(***************************************************************************)
Min(a, b) == IF a < b THEN a ELSE b

\* array[i], with i counted from 0; -1 stands for `undefined`
At(array, i) == IF i >= 0 /\ i < Len(array) THEN array[i + 1] ELSE -1

\* array.slice(begin, end), with 0 <= begin
Slice(array, begin, end) == SubSeq(array, begin + 1, Min(end, Len(array)))

\* array.pop() leaves this behind
Front(array) == SubSeq(array, 1, Len(array) - 1)

\* the last element of a non-empty array
Last(array) == array[Len(array)]

RECURSIVE SeqsUpTo(_, _)
\* every sequence over `alphabet` of length at most n
SeqsUpTo(alphabet, n) ==
  IF n = 0 THEN {<<>>}
  ELSE LET shorter == SeqsUpTo(alphabet, n - 1)
       IN  shorter \cup {Append(s, b) : s \in shorter, b \in alphabet}

(***************************************************************************)
(* The hash providers.  They are collaborators of the virtual machine:     *)
(* only their contract is modelled (a deterministic function of the bytes  *)
(* with a digest of fixed length), by a positional checksum.               *)
(***************************************************************************)
\* the checksum c of a byte sequence: c = 7 for the empty sequence, and
\* appending byte b as the n-th gives (31 * c + b + n) % ChecksumModulus.
\* It is computed by halving: a span of bytes maps c to (a * c + b).
ChecksumModulus == 65521

\* (x * y) % ChecksumModulus, without a product above 2^31
MulMod(x, y) ==
  (((x * (y \div 256)) % ChecksumModulus) * 256 + x * (y % 256)) % ChecksumModulus

RECURSIVE ChecksumSpan(_, _, _)
ChecksumSpan(bytes, lo, hi) ==
  IF lo > hi THEN [a |-> 1, b |-> 0]
  ELSE IF lo = hi THEN [a |-> 31, b |-> (bytes[lo] + lo) % ChecksumModulus]
  ELSE LET mid == (lo + hi) \div 2
           l == ChecksumSpan(bytes, lo, mid)
           r == ChecksumSpan(bytes, mid + 1, hi)
       IN  [a |-> MulMod(r.a, l.a), b |-> (MulMod(r.a, l.b) + r.b) % ChecksumModulus]

Checksum(bytes) ==
  LET span == ChecksumSpan(bytes, 1, Len(bytes))
  IN  (MulMod(span.a, 7) + span.b) % ChecksumModulus

Sha256Hash(bytes) ==
  LET c == Checksum(bytes) IN [i \in 1..32 |-> (c + 29 * i) % 256]

Ripemd160Hash(bytes) ==
  LET c == Checksum(bytes) IN [i \in 1..20 |-> (c * 3 + 17 * i) % 256]

(***************************************************************************)
(* common.ts: script numbers, truthiness, applyError, cloneStack.          *)
(***************************************************************************)
\* bigIntToScriptNumber, for the values -1 .. 16 the push operators use
bigIntToScriptNumber(value) ==
  IF value = 0 THEN <<>>
  ELSE IF value < 0 THEN <<128 + (0 - value)>>
  ELSE <<value>>

booleanToScriptNumber(b) == IF b THEN bigIntToScriptNumber(1) ELSE bigIntToScriptNumber(0)

\* an element is falsy iff it is empty, or all 0x00 with an optional final 0x80
stackElementIsTruthy(element) ==
  \E i \in 1..Len(element) :
    /\ element[i] # 0
    /\ ~(i = Len(element) /\ element[i] = 128)

\* a machine pairs a program state with the heap its `stack` refers into
Machine(st, hp) == [state |-> st, heap |-> hp]

\* state.stack, the array
StackOf(m) == m.heap[m.state.stack]

\* the array state.stack refers to, replaced in place
WithStack(m, array) == [m EXCEPT !.heap[m.state.stack] = array]

\* state.stack.push(element)
StackPush(m, element) == WithStack(m, Append(StackOf(m), element))

applyError(error, m) == [m EXCEPT !.state.error = error]

(***************************************************************************)
(* push.ts                                                                 *)
(***************************************************************************)
\* opPushNumber(value).operation
opPushNumber(value, m) == StackPush(m, bigIntToScriptNumber(value))

\* pushNumberOpCodes: OP_1NEGATE, OP_0, OP_1 .. OP_16, in this order
pushNumberOpCodes == <<OP_1NEGATE, OP_0>> \o [k \in 1..16 |-> OP_1 + (k - 1)]

\* pushNumberOperators making the opcode at index i push i
MutantPushNumberValueIsIndex(opcode) ==
  CHOOSE i \in 0..(Len(pushNumberOpCodes) - 1) : pushNumberOpCodes[i + 1] = opcode

\* pushNumberOperators: the opcode at (0-based) index i pushes i - 1
pushNumberValue(opcode) ==
  (CHOOSE i \in 0..(Len(pushNumberOpCodes) - 1) : pushNumberOpCodes[i + 1] = opcode) - 1

\* opPushDataConstant(value).operation without its test of the script's length
MutantPushDataConstantUnchecked(value, m) ==
  LET pushStart == m.state.ip
      pushEnd == m.state.ip + value
  IN  [StackPush(m, Slice(m.state.script, pushStart, pushEnd))
         EXCEPT !.state.ip = pushEnd]

\* opPushDataConstant(value).operation
opPushDataConstant(value, m) ==
  LET pushStart == m.state.ip
      pushEnd == m.state.ip + value
  IN  IF Len(m.state.script) < pushEnd
      THEN applyError("malformedPush", m)
      ELSE [StackPush(m, Slice(m.state.script, pushStart, pushEnd))
              EXCEPT !.state.ip = pushEnd]

\* pushDataConstantOpCodes: OP_PUSHBYTES_1 .. OP_PUSHBYTES_75; the opcode at
\* (0-based) index i pushes i + 1 bytes
pushDataConstantValue(opcode) == (opcode - OP_PUSHBYTES_1) + 1

RECURSIVE LittleEndian(_)
\* the unsigned integer a DataView reads, little-endian, from these bytes
LittleEndian(bytes) ==
  IF bytes = <<>> THEN 0 ELSE bytes[1] + 256 * LittleEndian(Tail(bytes))

\* a Uint32 of 2^30 or more is read as 2^30: no script is that long, and
\* the operators only compare the length with script lengths and limits
LengthBeyondEveryScript == 1073741824

\* readLittleEndianLength: a DataView over script.buffer that begins at byte
\* offset `ip` and spans `lengthBits` bytes, read at its offset 0
readLittleEndianLength(script, ip, lengthBits) ==
  LET bytes == SubSeq(script, ip + 1, ip + lengthBits)
  IN  IF Len(bytes) = 4 /\ bytes[4] >= 64 THEN LengthBeyondEveryScript
      ELSE LittleEndian(bytes)

\* enum PushOperationConstants
maximumPushDataConstant == 75
maximumPushSize == 520

\* createPushDataOperator(lengthBits, type, minimum, maximum).operation
pushDataVariableMethod(lengthBits, minimum, maximum, m) ==
  LET pushBegin == m.state.ip + lengthBits
      length == readLittleEndianLength(m.state.script, m.state.ip, lengthBits)
      pushEnd == pushBegin + length
  IN  IF Len(m.state.script) < pushBegin THEN applyError("malformedPush", m)
      ELSE IF Len(m.state.script) < pushBegin + length THEN applyError("malformedPush", m)
      ELSE IF length < minimum THEN applyError("nonMinimalPush", m)
      ELSE IF length > maximum THEN applyError("exceedsMaximumPush", m)
      ELSE [StackPush(m, Slice(m.state.script, pushBegin, pushEnd))
              EXCEPT !.state.ip = pushEnd]

\* highestRepresentableNumberIn(bytes)
highestRepresentableNumberIn(bytes) == 256 ^ bytes

\* opPushData1().operation
opPushData1(m) == pushDataVariableMethod(1, maximumPushDataConstant, maximumPushSize, m)

\* opPushData2().operation
opPushData2(m) ==
  pushDataVariableMethod(2, highestRepresentableNumberIn(1), maximumPushSize, m)

\* opPushData4().operation with no minimum length
MutantPushData4NoMinimum(m) == pushDataVariableMethod(4, 0, maximumPushSize, m)

\* opPushData4().operation
opPushData4(m) ==
  pushDataVariableMethod(4, highestRepresentableNumberIn(2), maximumPushSize, m)

(***************************************************************************)
(* crypto.ts and bitwise.ts                                                *)
(***************************************************************************)
\* opHash160.operation applying ripemd160 first and sha256 to its digest
MutantHash160Sha256Last(m) ==
  LET stack == StackOf(m)
  IN  IF stack = <<>>
      THEN applyError("emptyStack", m)
      ELSE WithStack(m, Append(Front(stack), Sha256Hash(Ripemd160Hash(Last(stack)))))

\* opHash160.operation: pop() of an empty array returns undefined
opHash160(m) ==
  LET stack == StackOf(m)
  IN  IF stack = <<>>
      THEN applyError("emptyStack", m)
      ELSE WithStack(m, Append(Front(stack), Ripemd160Hash(Sha256Hash(Last(stack)))))

\* opEqual.operation comparing the lengths of the two elements only
MutantEqualComparesLength(m) ==
  LET stack == StackOf(m)
      n == Len(stack)
  IN  IF n < 2
      THEN applyError("emptyStack", WithStack(m, <<>>))
      ELSE WithStack(m, Append(SubSeq(stack, 1, n - 2),
                               booleanToScriptNumber(Len(stack[n]) = Len(stack[n - 1]))))

\* opEqual.operation: pops two elements, compares them byte by byte
opEqual(m) ==
  LET stack == StackOf(m)
      n == Len(stack)
  IN  IF n < 2
      THEN applyError("emptyStack", WithStack(m, <<>>))
      ELSE WithStack(m, Append(SubSeq(stack, 1, n - 2),
                               booleanToScriptNumber(stack[n] = stack[n - 1])))

\* OP_DUP: pushes a copy of the top element
opDup(m) ==
  LET stack == StackOf(m)
  IN  IF stack = <<>>
      THEN applyError("emptyStack", m)
      ELSE StackPush(m, Last(stack))

\* OP_VERIFY: pops the top element, fails when it is falsy
opVerify(m) ==
  LET stack == StackOf(m)
  IN  IF stack = <<>> THEN applyError("emptyStack", m)
      ELSE IF stackElementIsTruthy(Last(stack)) THEN WithStack(m, Front(stack))
      ELSE applyError("verify failed", WithStack(m, Front(stack)))

\* OP_EQUALVERIFY: OP_EQUAL, then OP_VERIFY
opEqualVerify(m) ==
  LET compared == opEqual(m)
  IN  IF compared.state.error # NoError THEN compared ELSE opVerify(compared)

(***************************************************************************)
(* common.ts: parseBytesAsScriptNumber.  The result is a record: `error`   *)
(* tells a ScriptNumberError from a number.  Magnitudes saturate at 2^24,  *)
(* above every number the operators compare a count with.                  *)
(***************************************************************************)
maximumScriptNumberByteLength == 9

ScriptNumberMagnitude(bytes) ==
  LET n == Len(bytes)
      low == [i \in 1..Min(n, 3) |-> IF i = n THEN bytes[i] % 128 ELSE bytes[i]]
      high == \E i \in 4..n : (IF i = n THEN bytes[i] % 128 ELSE bytes[i]) # 0
  IN  LittleEndian(low) + (IF high THEN 16777216 ELSE 0)

parseBytesAsScriptNumber(bytes) ==
  LET n == Len(bytes)
  IN  IF n = 0 THEN [error |-> FALSE, value |-> 0]
      ELSE IF n > maximumScriptNumberByteLength THEN [error |-> TRUE, value |-> 0]
      ELSE IF bytes[n] % 128 = 0 /\ (n = 1 \/ bytes[n - 1] < 128)
        THEN [error |-> TRUE, value |-> 0]
      ELSE [error |-> FALSE,
            value |-> IF bytes[n] >= 128 THEN 0 - ScriptNumberMagnitude(bytes)
                      ELSE ScriptNumberMagnitude(bytes)]

isScriptNumberError(parsed) == parsed.error

(***************************************************************************)
(* encoding.ts: the encoding checks of public keys and signatures.         *)
(***************************************************************************)
isValidPublicKeyEncoding(publicKey) ==
  \/ Len(publicKey) = 33 /\ publicKey[1] \in {2, 3}
  \/ Len(publicKey) = 65 /\ publicKey[1] = 4

\* the recognised hashType bytes: ALL, NONE, SINGLE, with the fork id bit
\* and with or without ANYONECANPAY
SigningSerializationTypes == {65, 66, 67, 193, 194, 195}

\* the strict DER shape of `0x30 len 0x02 lenR R 0x02 lenS S hashType`
IsStrictDER(sig) ==
  LET n == Len(sig)
      lenR == sig[4]
      lenS == sig[6 + lenR]
  IN  /\ n >= 9 /\ n <= 73
      /\ sig[1] = 48
      /\ sig[2] = n - 3
      /\ 5 + lenR < n
      /\ lenR + lenS + 7 = n
      /\ sig[3] = 2
      /\ lenR # 0
      /\ sig[5] < 128
      /\ ~(lenR > 1 /\ sig[5] = 0 /\ sig[6] < 128)
      /\ sig[5 + lenR] = 2
      /\ lenS # 0
      /\ sig[7 + lenR] < 128
      /\ ~(lenS > 1 /\ sig[7 + lenR] = 0 /\ sig[8 + lenR] < 128)

isValidSignatureEncoding(bitcoinEncodedSignature) ==
  /\ IsStrictDER(bitcoinEncodedSignature)
  /\ Last(bitcoinEncodedSignature) \in SigningSerializationTypes

decodeBitcoinSignature(bitcoinEncodedSignature) ==
  [signingSerializationType |-> Last(bitcoinEncodedSignature),
   signature |-> Front(bitcoinEncodedSignature)]

(***************************************************************************)
(* signing-serialization.ts and utils: the preimage a signature commits    *)
(* to.  `version` stands for every field of the external state.            *)
(***************************************************************************)
Uint32LE(value) == [i \in 1..4 |-> (value \div (256 ^ (i - 1))) % 256]

\* bigIntToBitcoinVarInt, for the lengths scripts have here
bigIntToBitcoinVarInt(value) ==
  IF value < 253 THEN <<value>> ELSE <<253, value % 256, value \div 256>>

generateBitcoinCashSigningSerialization(version, scriptCode, signingSerializationType) ==
  Uint32LE(version) \o scriptCode \o Uint32LE(signingSerializationType)

\* the digest OP_CHECKSIG and OP_CHECKMULTISIG hand to the verifier
SigningDigest(st, signingSerializationType) ==
  LET script == SubSeq(st.script, st.lastCodeSeparator + 2, Len(st.script))
      scriptCode == bigIntToBitcoinVarInt(Len(script)) \o script
      serialization ==
        generateBitcoinCashSigningSerialization(st.version, scriptCode, signingSerializationType)
  IN  Sha256Hash(Sha256Hash(serialization))

(***************************************************************************)
(* The secp256k1 provider.  Only its contract is modelled: a public key    *)
(* has one DER signature per digest, and verification accepts that one.    *)
(***************************************************************************)
SignatureDER(publicKey, digest) ==
  <<48, 6, 2, 1, 1 + (Checksum(publicKey \o digest) % 127),
            2, 1, 1 + (Checksum(digest \o publicKey) % 127)>>

verifySignatureDERLowS(signature, publicKey, digest) ==
  signature = SignatureDER(publicKey, digest)

(***************************************************************************)
(* crypto.ts: OP_CHECKSIG and OP_CHECKMULTISIG.                            *)
(***************************************************************************)
\* whether the verifier accepts this Bitcoin-encoded signature of the
\* script being run under this public key
SignatureVerifies(st, bitcoinEncodedSignature, publicKey) ==
  LET decoded == decodeBitcoinSignature(bitcoinEncodedSignature)
  IN  verifySignatureDERLowS(decoded.signature, publicKey,
                             SigningDigest(st, decoded.signingSerializationType))

\* opCheckSig.operation testing the signature's encoding before the key's
MutantCheckSigSignatureFirst(m) ==
  LET stack == StackOf(m)
      n == Len(stack)
      popped == WithStack(m, SubSeq(stack, 1, n - 2))
  IN  IF n < 2 THEN applyError("emptyStack", WithStack(m, <<>>))
      ELSE IF ~isValidSignatureEncoding(stack[n - 1])
        THEN applyError("invalidSignatureEncoding", popped)
      ELSE IF ~isValidPublicKeyEncoding(stack[n])
        THEN applyError("invalidPublicKeyEncoding", popped)
      ELSE StackPush(popped,
             booleanToScriptNumber(SignatureVerifies(m.state, stack[n - 1], stack[n])))

\* opCheckSig.operation
opCheckSig(m) ==
  LET stack == StackOf(m)
      n == Len(stack)
      popped == WithStack(m, SubSeq(stack, 1, n - 2))
  IN  IF n < 2 THEN applyError("emptyStack", WithStack(m, <<>>))
      ELSE IF ~isValidPublicKeyEncoding(stack[n])
        THEN applyError("invalidPublicKeyEncoding", popped)
      ELSE IF ~isValidSignatureEncoding(stack[n - 1])
        THEN applyError("invalidSignatureEncoding", popped)
      ELSE StackPush(popped,
             booleanToScriptNumber(SignatureVerifies(m.state, stack[n - 1], stack[n])))

\* enum Multisig
maximumPublicKeys == 20

\* array.splice(-count): the elements removed and those kept.  -0 is 0, so
\* a count of 0 removes from index 0 on; a count above the length removes
\* everything
SpliceFromEnd(array, count) ==
  LET start == IF count = 0 \/ count > Len(array) THEN 0 ELSE Len(array) - count
  IN  [removed |-> SubSeq(array, start + 1, Len(array)),
       kept |-> SubSeq(array, 1, start)]

\* the loop condition of opCheckMultiSig
MultisigLoopContinues(required, approving, remainingSignatures, remainingPublicKeys) ==
  /\ remainingSignatures > 0
  /\ remainingPublicKeys >= approving + remainingSignatures
  /\ approving # required

RECURSIVE MultisigLoop(_, _, _, _, _, _, _)
\* the while loop of opCheckMultiSig: the error it returns with, or the
\* count of approving public keys it ends with
MultisigLoop(st, publicKeys, signatures, required, approving, remainingSignatures, remainingPublicKeys) ==
  IF ~MultisigLoopContinues(required, approving, remainingSignatures, remainingPublicKeys)
  THEN [error |-> NoError, approvingPublicKeys |-> approving]
  ELSE LET publicKey == publicKeys[remainingPublicKeys]
           bitcoinEncodedSignature == signatures[remainingSignatures]
       IN  IF ~isValidPublicKeyEncoding(publicKey)
             THEN [error |-> "invalidPublicKeyEncoding", approvingPublicKeys |-> approving]
           ELSE IF ~isValidSignatureEncoding(bitcoinEncodedSignature)
             THEN [error |-> "invalidSignatureEncoding", approvingPublicKeys |-> approving]
           ELSE IF SignatureVerifies(st, bitcoinEncodedSignature, publicKey)
             THEN MultisigLoop(st, publicKeys, signatures, required, approving + 1,
                               remainingSignatures - 1, remainingPublicKeys - 1)
           ELSE MultisigLoop(st, publicKeys, signatures, required, approving,
                             remainingSignatures, remainingPublicKeys - 1)

\* opCheckMultiSig.operation, from the pop of the protocol bug value on,
\* without the test of its length
MutantMultisigVerifyAnyBugValue(m, publicKeys, signatures, required) ==
  LET stack == StackOf(m)
      popped == WithStack(m, Front(stack))
      walked == MultisigLoop(m.state, publicKeys, signatures, required, 0,
                             Len(signatures), Len(publicKeys))
  IN  IF stack = <<>> THEN applyError("emptyStack", m)
      ELSE IF walked.error # NoError THEN applyError(walked.error, popped)
      ELSE StackPush(popped, booleanToScriptNumber(walked.approvingPublicKeys = required))

\* opCheckMultiSig.operation, from the pop of the protocol bug value on
MultisigVerify(m, publicKeys, signatures, required) ==
  LET stack == StackOf(m)
      popped == WithStack(m, Front(stack))
      walked == MultisigLoop(m.state, publicKeys, signatures, required, 0,
                             Len(signatures), Len(publicKeys))
  IN  IF stack = <<>> THEN applyError("emptyStack", m)
      ELSE IF Len(Last(stack)) # 0 THEN applyError("invalidProtocolBugValue", popped)
      ELSE IF walked.error # NoError THEN applyError(walked.error, popped)
      ELSE StackPush(popped, booleanToScriptNumber(walked.approvingPublicKeys = required))

\* opCheckMultiSig.operation, from the pop of the required signature count on
MultisigSignatures(m, publicKeys, potentialPublicKeys) ==
  LET stack == StackOf(m)
      popped == WithStack(m, Front(stack))
      parsed == parseBytesAsScriptNumber(Last(stack))
      requiredApprovingPublicKeys == parsed.value
      spliced == SpliceFromEnd(Front(stack), requiredApprovingPublicKeys)
  IN  IF stack = <<>> THEN applyError("emptyStack", m)
      ELSE IF isScriptNumberError(parsed) \/ requiredApprovingPublicKeys < 0
        THEN applyError("invalidNaturalNumber", popped)
      ELSE IF requiredApprovingPublicKeys > potentialPublicKeys
        THEN applyError("insufficientPublicKeys", popped)
      ELSE MultisigVerify(WithStack(m, spliced.kept), publicKeys, spliced.removed,
                          requiredApprovingPublicKeys)

\* opCheckMultiSig.operation comparing the operation count with >= instead
\* of >
MutantCheckMultiSigCountAtLimit(m) ==
  LET stack == StackOf(m)
      popped == WithStack(m, Front(stack))
      parsed == parseBytesAsScriptNumber(Last(stack))
      potentialPublicKeys == parsed.value
      spliced == SpliceFromEnd(Front(stack), potentialPublicKeys)
      counted == [WithStack(m, spliced.kept)
                    EXCEPT !.state.operationCount = @ + potentialPublicKeys]
  IN  IF stack = <<>> THEN applyError("emptyStack", m)
      ELSE IF isScriptNumberError(parsed) \/ potentialPublicKeys < 0
        THEN applyError("invalidNaturalNumber", popped)
      ELSE IF potentialPublicKeys > maximumPublicKeys
        THEN applyError("exceedsMaximumMultisigPublicKeyCount", popped)
      ELSE IF counted.state.operationCount >= maximumOperationCount
        THEN applyError("CommonAuthenticationError.exceededMaximumOperationCount", counted)
      ELSE MultisigSignatures(counted, spliced.removed, potentialPublicKeys)

\* opCheckMultiSig.operation
opCheckMultiSig(m) ==
  LET stack == StackOf(m)
      popped == WithStack(m, Front(stack))
      parsed == parseBytesAsScriptNumber(Last(stack))
      potentialPublicKeys == parsed.value
      spliced == SpliceFromEnd(Front(stack), potentialPublicKeys)
      counted == [WithStack(m, spliced.kept)
                    EXCEPT !.state.operationCount = @ + potentialPublicKeys]
  IN  IF stack = <<>> THEN applyError("emptyStack", m)
      ELSE IF isScriptNumberError(parsed) \/ potentialPublicKeys < 0
        THEN applyError("invalidNaturalNumber", popped)
      ELSE IF potentialPublicKeys > maximumPublicKeys
        THEN applyError("exceedsMaximumMultisigPublicKeyCount", popped)
      ELSE IF counted.state.operationCount > maximumOperationCount
        THEN applyError("CommonAuthenticationError.exceededMaximumOperationCount", counted)
      ELSE MultisigSignatures(counted, spliced.removed, potentialPublicKeys)

(***************************************************************************)
(* The operator table: commonOperators.                                    *)
(***************************************************************************)
IsPushNumberOpCode(opcode) == \E i \in 1..Len(pushNumberOpCodes) : pushNumberOpCodes[i] = opcode

IsPushDataConstantOpCode(opcode) == opcode >= OP_PUSHBYTES_1 /\ opcode <= OP_PUSHBYTES_75

\* operators[opcode].operation(state), unknownOpcode when the table has no entry
Operation(opcode, m) ==
  IF IsPushNumberOpCode(opcode) THEN opPushNumber(pushNumberValue(opcode), m)
  ELSE IF IsPushDataConstantOpCode(opcode)
    THEN opPushDataConstant(pushDataConstantValue(opcode), m)
  ELSE IF opcode = OP_PUSHDATA1 THEN opPushData1(m)
  ELSE IF opcode = OP_PUSHDATA2 THEN opPushData2(m)
  ELSE IF opcode = OP_PUSHDATA4 THEN opPushData4(m)
  ELSE IF opcode = OP_DUP THEN opDup(m)
  ELSE IF opcode = OP_EQUAL THEN opEqual(m)
  ELSE IF opcode = OP_EQUALVERIFY THEN opEqualVerify(m)
  ELSE IF opcode = OP_HASH160 THEN opHash160(m)
  ELSE IF opcode = OP_CHECKSIG THEN opCheckSig(m)
  ELSE IF opcode = OP_CHECKMULTISIG THEN opCheckMultiSig(m)
  ELSE applyError("unknownOpcode", m)

(***************************************************************************)
(* bitcoin-cash.ts: the instruction set.                                   *)
(***************************************************************************)
\* bitcoinCashInstructionSet.before
before(m) ==
  LET ip == m.state.ip + 1
      operation == At(m.state.script, ip)
      advanced == [m EXCEPT !.state.ip = ip]
  IN  IF operation # -1
      THEN LET counted == [advanced EXCEPT !.state.operationCount = @ + 1]
           IN  IF counted.state.operationCount > maximumOperationCount
               THEN applyError("exceededMaximumOperationCount", counted)
               ELSE [counted EXCEPT !.state.operations = Append(@, operation)]
      ELSE advanced

\* `continue` without its test of state.error
MutantContinueIgnoresError(st) == st.ip < Len(st.script)

\* `continue` without its test of ip
MutantContinueIgnoresIp(st) == st.error = NoError

\* bitcoinCashInstructionSet.continue
continue(st) == st.error = NoError /\ st.ip < Len(st.script)

\* a clone whose stack is a new, empty array
MutantCloneEmptyStack(m) ==
  Machine([m.state EXCEPT !.stack = Len(m.heap) + 1], Append(m.heap, <<>>))

\* clone keeping the stack array of the state it copies
MutantCloneSharesStack(m) == Machine(m.state, m.heap)

\* bitcoinCashInstructionSet.clone: a new state whose stack is a new array
\* holding the same elements (stack.slice())
clone(m) ==
  Machine([m.state EXCEPT !.stack = Len(m.heap) + 1], Append(m.heap, StackOf(m)))

\* cloneStack
cloneStack(hp, ref) == [heap |-> Append(hp, hp[ref]), stack |-> Len(hp) + 1]

(***************************************************************************)
(* virtual-machine.ts: step applies `before`, then the operator of the     *)
(* opcode at ip, on the state object it is given.                          *)
(***************************************************************************)
\* whether a step dispatches an operator: `before` raised no error and ip
\* is inside the script
Dispatches(m) == before(m).state.error = NoError /\ before(m).state.ip < Len(m.state.script)

step(m) ==
  LET b == before(m)
  IN  IF b.state.error # NoError THEN b
      ELSE IF b.state.ip >= Len(b.state.script) THEN b
      ELSE Operation(At(b.state.script, b.state.ip), b)

(***************************************************************************)
(* bitcoin-cash.ts: the phase pipeline.                                    *)
(***************************************************************************)
\* isPayToScriptHash without its length test
MutantIsPayToScriptHashAnyLength(lockingScript) ==
  /\ At(lockingScript, 0) = OP_HASH160
  /\ At(lockingScript, 1) = OP_PUSHBYTES_20
  /\ At(lockingScript, PayToScriptHashLastElement) = OP_EQUAL

\* isPayToScriptHash
isPayToScriptHash(lockingScript) ==
  /\ Len(lockingScript) = PayToScriptHashLength
  /\ At(lockingScript, 0) = OP_HASH160
  /\ At(lockingScript, 1) = OP_PUSHBYTES_20
  /\ At(lockingScript, PayToScriptHashLastElement) = OP_EQUAL

\* isPushOnly
\* isPushOnly accepting every list of operations
MutantIsPushOnlyAlways(operations) == TRUE

isPushOnly(operations) == \A i \in 1..Len(operations) : operations[i] < OP_16

\* the instruction pointer of a new program state
InitialIp == 0

\* the stack array a new program state gets: the array it is given
InitialStack(stack) == stack

\* createBitcoinCashProgramState with lastCodeSeparator starting at 0
MutantCreateStateSeparatorZero(prog, script, stack) ==
  [ip |-> InitialIp,
   lastCodeSeparator |-> 0,
   operationCount |-> 0,
   operations |-> <<>>,
   script |-> script,
   stack |-> InitialStack(stack),
   error |-> NoError,
   version |-> prog.state.version]

\* createBitcoinCashProgramState; `stack` is a reference into the heap
createBitcoinCashProgramState(prog, script, stack) ==
  [ip |-> InitialIp,
   lastCodeSeparator |-> -1,
   operationCount |-> 0,
   operations |-> <<>>,
   script |-> script,
   stack |-> InitialStack(stack),
   error |-> NoError,
   version |-> prog.state.version]

\* evaluateP2sh, up to the call of `evaluate`: the cloned stack, and the
\* element popped off it (defined = FALSE when pop() returned undefined)
evaluateP2sh(hp, unlockingStack) ==
  LET cloned == cloneStack(hp, unlockingStack)
      p2shStack == cloned.heap[cloned.stack]
  IN  [heap |-> [cloned.heap EXCEPT ![cloned.stack] = Front(p2shStack)],
       stack |-> cloned.stack,
       defined |-> p2shStack # <<>>,
       script |-> IF p2shStack # <<>> THEN Last(p2shStack) ELSE <<>>]

\* validateBitcoinCashAuthenticationProgramState
validateBitcoinCashAuthenticationProgramState(m) ==
  /\ m.state.error # NoError
  /\ Len(StackOf(m)) = 1
  /\ stackElementIsTruthy(StackOf(m)[1])

\* the pipeline never stops after the unlocking phase
MutantUnlockingNeverFailed(unlocking) == FALSE

\* the test of the unlocking result negated: the pipeline goes on to the
\* locking phase exactly when the unlocking phase ended with an error
MutantUnlockingFailedNegated(unlocking) == unlocking.error = NoError

\* whether the pipeline stops after the unlocking phase
UnlockingFailed(unlocking) == unlocking.error # NoError

\* enum Phase, enum P2shError
PhaseUnlocking == "Begin unlocking script evaluation."

PhaseLocking == "Begin locking script evaluation."

PhaseP2sh == "Begin Pay-to-Script-Hash (P2SH) script evaluation."

P2shErrorAsm == "[P2SH error]"

P2shErrorPushOnly == "P2SH error: unlockingScript must be push-only."

P2shErrorEmptyStack == "P2SH error: unlockingScript must not leave an empty stack."

(***************************************************************************)
(* The programs the model runs.                                            *)
(***************************************************************************)
\* the opcodes unlocking scripts are made of
ScriptAlphabet == {OP_0, OP_1, OP_16, OP_EQUAL}

\* the opcodes short locking scripts are made of
LockingAlphabet == {OP_PUSHBYTES_2, OP_EQUAL, OP_HASH160}

\* OP_HASH160 OP_PUSHBYTES_20 <20 bytes> OP_EQUAL
PayToScriptHashScript(hash) == <<OP_HASH160, OP_PUSHBYTES_20>> \o hash \o <<OP_EQUAL>>

\* the 20 bytes the P2SH locking scripts commit to: the hash of the redeem
\* script <<OP_1>>, and twenty zero bytes
CommittedHashes == {Ripemd160Hash(Sha256Hash(<<OP_1>>)), [i \in 1..20 |-> 0]}

P2shLockingScripts == {PayToScriptHashScript(h) : h \in CommittedHashes}

\* scripts one byte away from the P2SH shape
NearP2shLockingScripts ==
  LET p2sh == PayToScriptHashScript([i \in 1..20 |-> 0])
  IN  {[p2sh EXCEPT ![1] = OP_1],
       [p2sh EXCEPT ![2] = OP_PUSHBYTES_2],
       [p2sh EXCEPT ![PayToScriptHashLength] = OP_1],
       p2sh \o <<OP_1>>}

\* unlocking scripts whose push leaves the 20 bytes the locking phase of a
\* P2SH script pushes
CommittingUnlockingScripts ==
  {<<OP_0, OP_PUSHBYTES_20>> \o SubSeq(h, 1, 19) : h \in CommittedHashes}

UnlockingScripts == SeqsUpTo(ScriptAlphabet, MaxUnlockingLength) \cup CommittingUnlockingScripts

LockingScripts ==
  SeqsUpTo(LockingAlphabet, MaxLockingLength) \cup P2shLockingScripts \cup NearP2shLockingScripts

\* program.state: the external state, of which `version` stands for all fields
ExternalStates == {[version |-> v] : v \in {1, 2}}

Programs ==
  [unlockingScript : UnlockingScripts, lockingScript : LockingScripts, state : ExternalStates]

(***************************************************************************)
(* Keys and signatures of the scenarios.                                   *)
(***************************************************************************)
\* the compressed public key of key pair i
PublicKey(i) == <<2>> \o [j \in 1..32 |-> i]

\* a public key with a leading byte no encoding has
MalformedPublicKey == <<5>> \o [j \in 1..32 |-> 9]

\* SIGHASH_ALL | SIGHASH_FORKID
SigHashAllForkId == 65

\* the Bitcoin-encoded signature of key pair i for `script` run in a state
\* built from `prog`
SignatureBy(i, prog, script) ==
  LET st == createBitcoinCashProgramState(prog, script, 1)
  IN  SignatureDER(PublicKey(i), SigningDigest(st, SigHashAllForkId)) \o <<SigHashAllForkId>>

\* a signature whose hashType lacks the fork id bit
MalformedSignature == <<48, 6, 2, 1, 1, 2, 1, 1, 1>>

\* the script that pushes `element` with the minimal constant push
PushOf(element) == <<Len(element)>> \o element

\* OP_DUP OP_HASH160 OP_PUSHBYTES_20 <H> OP_EQUALVERIFY OP_CHECKSIG
PayToPublicKeyHashScript(publicKey) ==
  <<OP_DUP, OP_HASH160, OP_PUSHBYTES_20>> \o Ripemd160Hash(Sha256Hash(publicKey))
    \o <<OP_EQUALVERIFY, OP_CHECKSIG>>

\* scenario S1: <sig> <pk> unlocks a pay-to-public-key-hash output of key 1,
\* sig being the signature of key 1 over the locking script
ScenarioS1 ==
  {LET locking == PayToPublicKeyHashScript(PublicKey(1))
       bare == [unlockingScript |-> <<>>, lockingScript |-> locking, state |-> ext]
   IN  [bare EXCEPT !.unlockingScript =
          PushOf(SignatureBy(1, bare, locking)) \o PushOf(PublicKey(1))]
   : ext \in ExternalStates}

\* scenario S2: as S1, but sig signs a different digest (that of the empty
\* script)
ScenarioS2 ==
  {LET locking == PayToPublicKeyHashScript(PublicKey(1))
       bare == [unlockingScript |-> <<>>, lockingScript |-> locking, state |-> ext]
   IN  [bare EXCEPT !.unlockingScript =
          PushOf(SignatureBy(1, bare, <<>>)) \o PushOf(PublicKey(1))]
   : ext \in ExternalStates}

\* scenario S3: scripts containing OP_PUSHDATA1 0x01 0x05, as the unlocking
\* script, at its start or after one opcode
ScenarioS3 ==
  [unlockingScript : {<<OP_PUSHDATA1, 1, 5>>, <<OP_0, OP_PUSHDATA1, 1, 5>>,
                      <<OP_1, OP_PUSHDATA1, 1, 5, OP_1>>},
   lockingScript : {<<>>},
   state : ExternalStates]

ScenarioPrograms == ScenarioS1 \cup ScenarioS2 \cup ScenarioS3

(***************************************************************************)
(* State.                                                                  *)
(***************************************************************************)
VARIABLES
  program,          \* the AuthenticationProgram
  mode,             \* "evaluate" or "debug": which pipeline runs
  pc,               \* the phase being evaluated, or "done"
  outcome,          \* "running", "returned", or the exception that escaped
  heap,             \* the stack arrays allocated so far
  state,            \* the program state the virtual machine is stepping
  unlockingResult,  \* const unlockingResult
  lockingResult,    \* const lockingResult
  steps,            \* the debugging steps collected so far
  result,           \* the state the pipeline ends with
  phases,           \* history: each phase begun, its script and initial stack
  terminals,        \* history: each phase ended, its state and stack then
  dispatched,       \* history: the script indices dispatched in this phase
  taken             \* history: the steps taken in this phase

vars ==
  <<program, mode, pc, outcome, heap, state, unlockingResult, lockingResult,
    steps, result, phases, terminals, dispatched, taken>>

\* the value of a state variable not assigned yet
NullState ==
  [ip |-> 0, lastCodeSeparator |-> -1, operationCount |-> 0, operations |-> <<>>,
   script |-> <<>>, stack |-> 0, error |-> "unassigned", version |-> 0]

\* a debugging step
DebuggingStep(asm, description, st) == [asm |-> asm, description |-> description, state |-> st]

\* the start of a phase: the new program state and, under debug, the entry
\* with the phase label, holding a clone of it
BeginPhase(prog, debugging, message, script, stack, hp) ==
  LET st == createBitcoinCashProgramState(prog, script, stack)
      c == clone(Machine(st, hp))
  IN  [state |-> st,
       heap |-> IF debugging THEN c.heap ELSE hp,
       steps |-> IF debugging THEN <<DebuggingStep("", message, c.state)>> ELSE <<>>,
       phase |-> [phase |-> message, script |-> script, stack |-> hp[st.stack],
                  state |-> st]]

Init ==
  \E prog \in Programs \cup ScenarioPrograms, md \in {"evaluate", "debug"} :
    LET begun == BeginPhase(prog, md = "debug", PhaseUnlocking, prog.unlockingScript,
                            1, << <<>> >>)
    IN  /\ program = prog
        /\ mode = md
        /\ pc = "unlocking"
        /\ outcome = "running"
        /\ heap = begun.heap
        /\ state = begun.state
        /\ unlockingResult = NullState
        /\ lockingResult = NullState
        /\ steps = begun.steps
        /\ result = NullState
        /\ phases = <<begun.phase>>
        /\ terminals = <<>>
        /\ dispatched = <<>>
        /\ taken = 0

(***************************************************************************)
(* The virtual machine's loops: vm.evaluate and vm.debug take one step     *)
(* while `continue` holds.  The step works on the state object it is       *)
(* given; vm.debug records a clone of the state after each step.           *)
(***************************************************************************)
\* the indices dispatched, after a step from machine m
Dispatched(m) == IF Dispatches(m) THEN Append(dispatched, before(m).state.ip) ELSE dispatched

EvaluateStep ==
  /\ mode = "evaluate"
  /\ pc # "done"
  /\ continue(state)
  /\ LET m == step(Machine(state, heap))
     IN  /\ state' = m.state
         /\ heap' = m.heap
  /\ dispatched' = Dispatched(Machine(state, heap))
  /\ taken' = taken + 1
  /\ UNCHANGED <<program, mode, pc, outcome, unlockingResult, lockingResult, steps,
                 result, phases, terminals>>

DebugStep ==
  /\ mode = "debug"
  /\ pc # "done"
  /\ continue(state)
  /\ LET m == step(Machine(state, heap))
         c == clone(m)
     IN  /\ state' = m.state
         /\ heap' = c.heap
         /\ steps' = Append(steps, DebuggingStep("operator", "", c.state))
  /\ dispatched' = Dispatched(Machine(state, heap))
  /\ taken' = taken + 1
  /\ UNCHANGED <<program, mode, pc, outcome, unlockingResult, lockingResult, result,
                 phases, terminals>>

\* a phase ended: the state the virtual machine stopped in, and its stack as
\* it is then
Terminal(st) == [state |-> st, stack |-> heap[st.stack]]

(***************************************************************************)
(* evaluateBitcoinCashAuthenticationProgram                                *)
(***************************************************************************)
\* lines 243-256: the unlocking phase ended
EvaluateUnlocked ==
  /\ mode = "evaluate"
  /\ pc = "unlocking"
  /\ ~continue(state)
  /\ unlockingResult' = state
  /\ terminals' = Append(terminals, Terminal(state))
  /\ IF UnlockingFailed(state)
     THEN /\ pc' = "done"
          /\ outcome' = "returned"
          /\ result' = state
          /\ UNCHANGED <<state, heap, phases, dispatched, taken>>
     ELSE LET begun == BeginPhase(program, FALSE, PhaseLocking, program.lockingScript,
                                  state.stack, heap)
          IN  /\ pc' = "locking"
              /\ state' = begun.state
              /\ heap' = begun.heap
              /\ phases' = Append(phases, begun.phase)
              /\ dispatched' = <<>>
              /\ taken' = 0
              /\ UNCHANGED <<outcome, result>>
  /\ UNCHANGED <<program, mode, lockingResult, steps>>

\* lines 257-263: the locking phase ended
EvaluateLocked ==
  /\ mode = "evaluate"
  /\ pc = "locking"
  /\ ~continue(state)
  /\ lockingResult' = state
  /\ terminals' = Append(terminals, Terminal(state))
  /\ IF isPayToScriptHash(program.lockingScript)
     THEN LET p2sh == evaluateP2sh(heap, unlockingResult.stack)
              begun == BeginPhase(program, FALSE, PhaseP2sh, p2sh.script, p2sh.stack,
                                  p2sh.heap)
          IN  IF p2sh.defined
              THEN /\ pc' = "p2sh"
                   /\ state' = begun.state
                   /\ heap' = begun.heap
                   /\ phases' = Append(phases, begun.phase)
                   /\ dispatched' = <<>>
                   /\ taken' = 0
                   /\ UNCHANGED <<outcome, result>>
              ELSE \* the script is undefined: reading state.script.length throws
                   /\ pc' = "done"
                   /\ outcome' = "TypeError"
                   /\ heap' = p2sh.heap
                   /\ UNCHANGED <<state, result, phases, dispatched, taken>>
     ELSE /\ pc' = "done"
          /\ outcome' = "returned"
          /\ result' = state
          /\ UNCHANGED <<state, heap, phases, dispatched, taken>>
  /\ UNCHANGED <<program, mode, unlockingResult, steps>>

\* the P2SH phase ended: its terminal state is returned
EvaluateP2shDone ==
  /\ mode = "evaluate"
  /\ pc = "p2sh"
  /\ ~continue(state)
  /\ terminals' = Append(terminals, Terminal(state))
  /\ pc' = "done"
  /\ outcome' = "returned"
  /\ result' = state
  /\ UNCHANGED <<program, mode, heap, state, unlockingResult, lockingResult, steps,
                 phases, dispatched, taken>>

(***************************************************************************)
(* debugBitcoinCashAuthenticationProgram                                   *)
(***************************************************************************)
\* debugPhase: const result = steps[steps.length - 1].state
DebugPhaseResult == Last(steps).state

\* lines 176-192: the unlocking phase ended
DebugUnlocked ==
  /\ mode = "debug"
  /\ pc = "unlocking"
  /\ ~continue(state)
  /\ unlockingResult' = DebugPhaseResult
  /\ terminals' = Append(terminals, Terminal(state))
  /\ IF UnlockingFailed(DebugPhaseResult)
     THEN /\ pc' = "done"
          /\ outcome' = "returned"
          /\ result' = DebugPhaseResult
          /\ UNCHANGED <<state, heap, steps, phases, dispatched, taken>>
     ELSE LET begun == BeginPhase(program, TRUE, PhaseLocking, program.lockingScript,
                                  DebugPhaseResult.stack, heap)
          IN  /\ pc' = "locking"
              /\ state' = begun.state
              /\ heap' = begun.heap
              /\ steps' = steps \o begun.steps
              /\ phases' = Append(phases, begun.phase)
              /\ dispatched' = <<>>
              /\ taken' = 0
              /\ UNCHANGED <<outcome, result>>
  /\ UNCHANGED <<program, mode, lockingResult>>

\* lines 193-222: the locking phase ended
DebugLocked ==
  /\ mode = "debug"
  /\ pc = "locking"
  /\ ~continue(state)
  /\ lockingResult' = DebugPhaseResult
  /\ terminals' = Append(terminals, Terminal(state))
  /\ IF DebugPhaseResult.error # NoError \/ ~isPayToScriptHash(program.lockingScript)
     THEN /\ pc' = "done"
          /\ outcome' = "returned"
          /\ result' = DebugPhaseResult
          /\ UNCHANGED <<state, heap, steps, phases, dispatched, taken>>
     ELSE IF ~isPushOnly(unlockingResult.operations)
     THEN /\ pc' = "done"
          /\ outcome' = "returned"
          /\ steps' = Append(steps, DebuggingStep(P2shErrorAsm, P2shErrorPushOnly,
                                                  DebugPhaseResult))
          /\ result' = DebugPhaseResult
          /\ UNCHANGED <<state, heap, phases, dispatched, taken>>
     ELSE IF Len(heap[unlockingResult.stack]) = 0
     THEN /\ pc' = "done"
          /\ outcome' = "returned"
          /\ steps' = Append(steps, DebuggingStep(P2shErrorAsm, P2shErrorEmptyStack,
                                                  DebugPhaseResult))
          /\ result' = DebugPhaseResult
          /\ UNCHANGED <<state, heap, phases, dispatched, taken>>
     ELSE LET p2sh == evaluateP2sh(heap, unlockingResult.stack)
              begun == BeginPhase(program, TRUE, PhaseP2sh, p2sh.script, p2sh.stack,
                                  p2sh.heap)
          IN  /\ pc' = "p2sh"
              /\ state' = begun.state
              /\ heap' = begun.heap
              /\ steps' = steps \o begun.steps
              /\ phases' = Append(phases, begun.phase)
              /\ dispatched' = <<>>
              /\ taken' = 0
              /\ UNCHANGED <<outcome, result>>
  /\ UNCHANGED <<program, mode, unlockingResult>>

\* the P2SH phase ended: its steps end the steps returned
DebugP2shDone ==
  /\ mode = "debug"
  /\ pc = "p2sh"
  /\ ~continue(state)
  /\ terminals' = Append(terminals, Terminal(state))
  /\ pc' = "done"
  /\ outcome' = "returned"
  /\ result' = DebugPhaseResult
  /\ UNCHANGED <<program, mode, heap, state, unlockingResult, lockingResult, steps,
                 phases, dispatched, taken>>

Next ==
  \/ EvaluateStep
  \/ DebugStep
  \/ EvaluateUnlocked
  \/ EvaluateLocked
  \/ EvaluateP2shDone
  \/ DebugUnlocked
  \/ DebugLocked
  \/ DebugP2shDone

Spec == Init /\ [][Next]_vars

(***************************************************************************)
(* One phase on its own: vm.evaluate of the state                          *)
(* createBitcoinCashProgramState builds from a script and an initial       *)
(* stack.                                                                  *)
(***************************************************************************)
\* most opcodes of a script drawn from VmAlphabet, after its first byte
MaxVmLength == 3
\* most public keys of an OP_CHECKMULTISIG
MaxPublicKeys == 3
\* most signatures of an OP_CHECKMULTISIG
MaxSignatures == 2

\* n times the same bytes
Repeat(bytes, n) == [i \in 1..(n * Len(bytes)) |-> bytes[((i - 1) % Len(bytes)) + 1]]

VmAlphabet ==
  {OP_1, OP_PUSHBYTES_1, OP_PUSHBYTES_2, OP_PUSHDATA1, OP_PUSHDATA2, OP_PUSHDATA4, OP_EQUAL}

\* short scripts of pushes
ShortScripts == {<<OP_0>> \o body : body \in SeqsUpTo(VmAlphabet, MaxVmLength)}

\* variable pushes followed by enough bytes, one byte too few, or one more
LongPushScripts ==
  {<<OP_0, OP_PUSHDATA1>> \o Repeat(<<OP_1>>, k) : k \in 75..77}
    \cup {<<OP_0, OP_PUSHDATA2, b>> \o Repeat(<<OP_1>>, k)
            : b \in {0}, k \in {OP_PUSHDATA2 - 1, OP_PUSHDATA2, OP_PUSHDATA2 + 1}}
    \cup {<<OP_0, OP_PUSHDATA2, 1>> \o Repeat(<<OP_1>>, k) : k \in 332..334}
    \cup {<<OP_0, OP_PUSHDATA2, 2>> \o Repeat(<<OP_1>>, k) : k \in 588..589}
    \cup {<<OP_0, OP_PUSHDATA4, 0, 0, 0>> \o Repeat(<<OP_1>>, k) : k \in 77..78}
    \cup {<<OP_0, OP_PUSHDATA4, 0, 1, 0>> \o Repeat(<<OP_1>>, k)
            : k \in {OP_PUSHDATA4 + highestRepresentableNumberIn(2)}}

\* variable pushes whose length field declares the payload that follows it:
\* 75 and 76 bytes under OP_PUSHDATA1; 255, 256, 520 and 521 bytes under
\* OP_PUSHDATA2
DeclaredPushScripts ==
  {<<OP_0, OP_PUSHDATA1, k>> \o Repeat(<<OP_1>>, k)
     : k \in {maximumPushDataConstant, maximumPushDataConstant + 1}}
    \cup {<<OP_0, OP_PUSHDATA2, k % 256, k \div 256>> \o Repeat(<<OP_1>>, k)
            : k \in {255, 256, maximumPushSize, maximumPushSize + 1}}

\* every numeric push as the first operation, and OP_1NEGATE before OP_16
NumericPushScripts ==
  {<<OP_0, pushNumberOpCodes[i]>> : i \in 1..Len(pushNumberOpCodes)}
    \cup {<<OP_0, OP_1NEGATE, OP_16>>}

\* scripts made of data pushes only, from their first byte on, whose payload
\* bytes have the values of opcodes that push nothing
PayloadScripts ==
  {<<OP_PUSHBYTES_1, OP_EQUAL>>,
   <<OP_PUSHBYTES_2, OP_HASH160, OP_EQUAL>>,
   <<OP_0, OP_PUSHBYTES_1, OP_EQUAL>>,
   <<OP_PUSHBYTES_1, OP_1, OP_PUSHBYTES_1, OP_16>>}

\* OP_HASH160 as the first operation, and after OP_0
HashScripts == {<<OP_0, OP_HASH160>>, <<OP_0, OP_0, OP_HASH160>>}

\* scripts of 200 to 203 opcodes after the first byte
LongScripts ==
  {<<OP_0, OP_1>> \o Repeat(<<OP_HASH160>>, k) : k \in 199..202}

\* OP_0 OP_0 OP_EQUALVERIFY: three operations that leave the stack as it was
Idle == <<OP_0, OP_0, OP_EQUALVERIFY>>

\* OP_0 OP_HASH160 OP_DUP OP_EQUALVERIFY: four operations that leave the
\* stack as it was
LongIdle == <<OP_0, OP_HASH160, OP_DUP, OP_EQUALVERIFY>>

\* OP_CHECKSIG or OP_CHECKMULTISIG as the first operation
CheckingScripts ==
  {<<OP_0, op>> : op \in {OP_CHECKSIG, OP_CHECKMULTISIG}} \cup {<<OP_0, OP_CHECKSIG, OP_1>>}

\* OP_CHECKMULTISIG as the 199th, 200th or 201st operation
CountedMultisigScripts ==
  {<<OP_0>> \o idle \o <<OP_CHECKMULTISIG>>
     : idle \in {Repeat(Idle, 66),
                 Repeat(Idle, 65) \o LongIdle,
                 Repeat(Idle, 64) \o LongIdle \o LongIdle}}

\* what lies below an operator's operands
Below == {<<>>, << <<7>> >>}

\* the most elements a stack may hold (spec section 3; bitcoin-cash.ts has
\* no such rule: line 1 lists it as unimplemented)
maximumStackDepth == 1000

\* one or two numeric pushes
StackLimitScripts == {<<OP_0>> \o Repeat(<<OP_1>>, k) : k \in 1..2}

\* stacks of 999 and of 1000 elements
StackLimitStacks == {[i \in 1..n |-> <<1>>] : n \in {maximumStackDepth - 1, maximumStackDepth}}

\* OP_EQUAL as the first operation
EqualScripts == {<<OP_0, OP_EQUAL>> \o rest : rest \in SeqsUpTo({OP_EQUAL, OP_1}, 1)}

\* the elements the tests of opEqual compare, and the empty element
EqualOperands == {<<1, 2, 3>>, <<1, 2>>, <<1, 2, 5>>, <<>>}

\* stacks an OP_EQUAL finds its two operands on
EqualStacks == {below \o <<a, b>> : below \in Below, a \in EqualOperands, b \in EqualOperands}

\* the public keys of an OP_CHECKMULTISIG: key pairs 1 .. n in this order,
\* or one of them malformed
PublicKeyLists ==
  UNION {LET keys == [i \in 1..n |-> PublicKey(i)]
         IN  {keys} \cup {[keys EXCEPT ![i] = MalformedPublicKey] : i \in 1..n}
         : n \in 0..MaxPublicKeys}

\* what a signature of `script` can be: by one of the key pairs, by another
\* key pair, or malformed
Signatures(prog, script) ==
  {SignatureBy(i, prog, script) : i \in 1..(MaxPublicKeys + 1)} \cup {MalformedSignature}

\* the protocol bug value of an OP_CHECKMULTISIG
ProtocolBugValues == {<<>>, <<0>>, <<1>>}

\* counts that are no natural number, or a number too large
OddCounts == {<<0>>, <<129>>, <<21>>, <<1, 0>>}

\* stacks an OP_CHECKMULTISIG finds its operands on, with an empty protocol
\* bug value: every list of signatures with every list of public keys
MultisigStacks(prog, script) ==
  {<< <<7>>, <<>> >> \o sigs \o <<bigIntToScriptNumber(Len(sigs))>> \o keys
         \o <<bigIntToScriptNumber(Len(keys))>>
     : sigs \in SeqsUpTo(Signatures(prog, script), MaxSignatures),
       keys \in PublicKeyLists}

\* stacks of an m-of-n OP_CHECKMULTISIG whose signatures are those of the
\* first m key pairs, all of another key pair, or all malformed, over each
\* protocol bug value
ProtocolBugStacks(prog, script) ==
  UNION {{below \o <<bug>> \o sigs \o <<bigIntToScriptNumber(Len(sigs))>>
                \o [i \in 1..n |-> PublicKey(i)] \o <<bigIntToScriptNumber(n)>>
            : below \in Below, bug \in ProtocolBugValues,
              sigs \in UNION {{[i \in 1..m |-> SignatureBy(i, prog, script)],
                               [i \in 1..m |-> SignatureBy(MaxPublicKeys + 1, prog, script)],
                               [i \in 1..m |-> MalformedSignature]}
                              : m \in 0..Min(n, MaxSignatures)}}
         : n \in 1..MaxPublicKeys}

\* stacks whose counts are odd or do not fit the operands
OddMultisigStacks(prog, script) ==
  {<<bug, SignatureBy(1, prog, script), m, PublicKey(1), n>>
     : bug \in ProtocolBugValues,
       m \in OddCounts \cup {<<1>>, <<2>>}, n \in OddCounts \cup {<<1>>, <<2>>}}

\* stacks an OP_CHECKSIG finds its operands on
CheckSigStacks(prog, script) ==
  {below \o <<sig, key>>
     : below \in Below, sig \in Signatures(prog, script),
       key \in {PublicKey(1), PublicKey(2), MalformedPublicKey}}

\* every stack cut short
Prefixes(stacks) == {SubSeq(stack, 1, k) : stack \in stacks, k \in 0..2}

\* n signatures of n public keys, for n = 1 and n = 2
CountedMultisigStacks(prog, script) ==
  {<< <<>> >> \o [i \in 1..n |-> SignatureBy(i, prog, script)]
      \o <<bigIntToScriptNumber(n)>> \o [i \in 1..n |-> PublicKey(i)]
      \o <<bigIntToScriptNumber(n)>>
     : n \in 1..2}

\* the initial stacks of a script
VmStacks(prog, script) ==
  IF script \in CheckingScripts
  THEN ProtocolBugStacks(prog, script) \cup OddMultisigStacks(prog, script)
         \cup CheckSigStacks(prog, script)
         \cup Prefixes(CheckSigStacks(prog, script))
         \cup (IF prog.state.version = 1 THEN MultisigStacks(prog, script) ELSE {})
  ELSE IF script \in CountedMultisigScripts THEN CountedMultisigStacks(prog, script)
  ELSE IF script \in EqualScripts THEN Below \cup EqualStacks
  ELSE IF script \in StackLimitScripts THEN Below \cup StackLimitStacks
  ELSE Below \cup {<< <<>>, <<>> >>}

VmScripts ==
  ShortScripts \cup LongPushScripts \cup DeclaredPushScripts \cup NumericPushScripts
    \cup PayloadScripts \cup HashScripts
    \cup LongScripts
    \cup CheckingScripts
    \cup CountedMultisigScripts \cup EqualScripts \cup StackLimitScripts

VmInit ==
  \E script \in VmScripts, ext \in ExternalStates :
    LET prog == [unlockingScript |-> script, lockingScript |-> <<>>, state |-> ext]
    IN  \E stack \in VmStacks(prog, script) :
          LET begun == BeginPhase(prog, FALSE, PhaseUnlocking, script, 1, <<stack>>)
          IN  /\ program = prog
              /\ mode = "evaluate"
              /\ pc = "vm"
              /\ outcome = "running"
              /\ heap = begun.heap
              /\ state = begun.state
              /\ unlockingResult = NullState
              /\ lockingResult = NullState
              /\ steps = begun.steps
              /\ result = NullState
              /\ phases = <<begun.phase>>
              /\ terminals = <<>>
              /\ dispatched = <<>>
              /\ taken = 0

\* vm.evaluate returned
VmEvaluated ==
  /\ pc = "vm"
  /\ ~continue(state)
  /\ terminals' = Append(terminals, Terminal(state))
  /\ pc' = "done"
  /\ outcome' = "returned"
  /\ result' = state
  /\ UNCHANGED <<program, mode, heap, state, unlockingResult, lockingResult, steps,
                 phases, dispatched, taken>>

VmNext == EvaluateStep \/ VmEvaluated

VmSpec == VmInit /\ [][VmNext]_vars

(***************************************************************************)
(* Properties.                                                             *)
(***************************************************************************)
\* the stack of a program state, as it is now
StackNow(st) == heap[st.stack]

\* a state without error whose stack is one truthy element
Succeeds(st) ==
  /\ st.error = NoError
  /\ Len(StackNow(st)) = 1
  /\ stackElementIsTruthy(StackNow(st)[1])

\* two program states agree in every field, their stacks compared by content
SameState(a, b) == [a EXCEPT !.stack = 0] = [b EXCEPT !.stack = 0] /\ StackNow(a) = StackNow(b)

UnlockingEnded == Len(terminals) >= 1

LockingEnded == Len(terminals) >= 2

\* C1: validateBitcoinCashAuthenticationProgramState(state) is true exactly
\* when state.error is unset and the stack is one truthy element.
C1_ValidIffSucceeds ==
  outcome = "returned" =>
    (validateBitcoinCashAuthenticationProgramState(Machine(result, heap)) <=> Succeeds(result))

\* C2: with a P2SH locking script, when the locking phase ends with an error
\* or with a top element that is not truthy, the state the program ends with
\* is not an error-free state whose stack is a single truthy element.
C2_HashMismatchNeverSucceeds ==
  ( /\ outcome = "returned"
    /\ isPayToScriptHash(program.lockingScript)
    /\ LockingEnded
    /\ \/ terminals[2].state.error # NoError
       \/ terminals[2].stack = <<>>
       \/ ~stackElementIsTruthy(Last(terminals[2].stack)) )
  => ~Succeeds(result)

\* C3: with a P2SH locking script whose locking phase ended without error,
\* when the unlocking phase executed an opcode >= OP_16 the program ends
\* with error p2shPushOnly and no redeem script is evaluated.
C3_NotPushOnlyFails ==
  ( /\ pc = "done"
    /\ isPayToScriptHash(program.lockingScript)
    /\ LockingEnded
    /\ terminals[2].state.error = NoError
    /\ \E i \in 1..Len(terminals[1].state.operations) :
         terminals[1].state.operations[i] >= OP_16 )
  => /\ outcome = "returned"
     /\ result.error = P2shErrorPushOnly
     /\ Len(phases) = 2

\* C4: with a P2SH locking script, when the unlocking phase ends without
\* error and with an empty stack the program ends with error p2shEmptyStack,
\* no redeem script is evaluated and no exception escapes.
C4_EmptyUnlockingStackFails ==
  ( /\ pc = "done"
    /\ isPayToScriptHash(program.lockingScript)
    /\ UnlockingEnded
    /\ terminals[1].state.error = NoError
    /\ terminals[1].stack = <<>> )
  => /\ outcome = "returned"
     /\ result.error = P2shErrorEmptyStack
     /\ Len(phases) = 2

\* C5: the P2SH phase evaluates the element that was on top of the stack
\* when the unlocking phase ended, on the unlocking phase's terminal stack
\* without that element.
C5_RedeemScriptIsUnlockingTop ==
  Len(phases) >= 3 =>
    /\ terminals[1].stack # <<>>
    /\ phases[3].script = Last(terminals[1].stack)
    /\ phases[3].stack = Front(terminals[1].stack)

\* C6: when the unlocking phase ends without error, the locking phase's
\* initial stack equals the unlocking phase's terminal stack, in both
\* pipelines.
C6_LockingStartsOnUnlockingStack ==
  Len(phases) >= 2 =>
    /\ phases[2].script = program.lockingScript
    /\ phases[2].stack = terminals[1].stack

C6_Witness ==
  /\ mode = "debug"
  /\ pc = "locking"
  /\ Len(phases[2].stack) = 2
  /\ phases[2].stack[1] # phases[2].stack[2]

\* C7: the locking phase (and the P2SH phase) never changes the unlocking
\* phase's terminal state: once the locking script has been evaluated, the
\* stack of the unlocking result is what it was when the unlocking phase ended.
C7_UnlockingResultUnchanged ==
  LockingEnded => StackNow(unlockingResult) = terminals[1].stack

\* C8: when the unlocking phase ends with error set, the program ends with
\* the unlocking terminal state, no other script is evaluated, and the debug
\* pipeline returns only the unlocking steps.
C8_UnlockingErrorEndsProgram ==
  (UnlockingEnded /\ terminals[1].state.error # NoError) =>
    /\ pc = "done"
    /\ outcome = "returned"
    /\ SameState(result, terminals[1].state)
    /\ StackNow(result) = terminals[1].stack
    /\ Len(phases) = 1
    /\ Len(terminals) = 1
    /\ \A i \in 1..Len(steps) :
         /\ steps[i].state.script = program.unlockingScript
         /\ steps[i].description = (IF i = 1 THEN PhaseUnlocking ELSE "")

C8_Witness ==
  /\ mode = "debug"
  /\ UnlockingEnded
  /\ terminals[1].state.error # NoError
  /\ Len(steps) >= 3

\* the P2SH shape, byte by byte
HasP2shShape(script) ==
  /\ Len(script) = 23
  /\ script[1] = OP_HASH160
  /\ script[2] = OP_PUSHBYTES_20
  /\ script[23] = OP_EQUAL

\* evaluateP2sh was called
P2shEvaluated == Len(phases) = 3 \/ outcome = "TypeError"

\* the debug pipeline ended with a P2SH pseudo-step
P2shRefused == steps # <<>> /\ Last(steps).asm = P2shErrorAsm

\* C9 as stated: P2SH handling is applied iff the locking script has the
\* P2SH shape, and for any other locking script the program ends with the
\* locking phase's terminal state.
C9_P2shIffShape ==
  (mode = "evaluate" /\ pc = "done") =>
    /\ P2shEvaluated <=> HasP2shShape(program.lockingScript)
    /\ ~HasP2shShape(program.lockingScript) =>
         (LockingEnded /\ result = terminals[2].state)

\* C9 amended: the same, when the unlocking phase ended without error; the
\* debug pipeline applies P2SH handling iff the shape is met and the locking
\* phase ended without error.
C9_P2shIffShapeAfterUnlocking ==
  (pc = "done" /\ terminals[1].state.error = NoError) =>
    /\ LockingEnded
    /\ mode = "evaluate" =>
         /\ P2shEvaluated <=> HasP2shShape(program.lockingScript)
         /\ ~HasP2shShape(program.lockingScript) => result = terminals[2].state
    /\ mode = "debug" =>
         /\ (Len(phases) = 3 \/ P2shRefused) <=>
              (HasP2shShape(program.lockingScript) /\ terminals[2].state.error = NoError)
         /\ ~HasP2shShape(program.lockingScript) => SameState(result, terminals[2].state)

C9_Witness ==
  /\ mode = "evaluate"
  /\ pc = "done"
  /\ outcome = "returned"
  /\ HasP2shShape(program.lockingScript)
  /\ Len(phases) = 3
  /\ program.state.version = 2

\* the bytes that follow a push opcode as its payload
PayloadLength(opcode) == IF IsPushDataConstantOpCode(opcode) THEN opcode ELSE 0

RECURSIVE OpcodePositions(_, _)
\* the indices of the opcode bytes of a script, from index i on: every byte
\* that is not inside a push payload
OpcodePositions(script, i) ==
  IF i >= Len(script) THEN <<>>
  ELSE <<i>> \o OpcodePositions(script, i + 1 + PayloadLength(At(script, i)))

IsPrefix(s, t) == Len(s) <= Len(t) /\ SubSeq(t, 1, Len(s)) = s

\* C10: in every phase the first opcode dispatched is the byte at index 0
\* of the phase's script, and every opcode byte outside a push payload is
\* dispatched exactly once, in increasing index order, until an error occurs
\* or the script ends.
C10_DispatchFollowsOpcodes ==
  /\ dispatched # <<>> => dispatched[1] = 0
  /\ IsPrefix(dispatched, OpcodePositions(state.script, 0))
  /\ (~continue(state) /\ state.error = NoError)
       => dispatched = OpcodePositions(state.script, 0)

\* C11: every phase starts with operationCount = 0, an empty operations
\* list and lastCodeSeparator = -1, whatever the previous phase ended with.
C11_PhaseStartsFresh ==
  /\ \A i \in 1..Len(phases) :
       /\ phases[i].state.operationCount = 0
       /\ phases[i].state.operations = <<>>
       /\ phases[i].state.lastCodeSeparator = -1
  /\ (pc # "done" /\ taken = 0) =>
       /\ state.operationCount = 0
       /\ state.operations = <<>>
       /\ state.lastCodeSeparator = -1

\* the P2SH phase has just begun, after two phases that counted operations
C11_Witness ==
  /\ pc = "p2sh"
  /\ taken = 0
  /\ Len(terminals) = 2
  /\ terminals[1].state.operationCount > 1
  /\ terminals[2].state.operationCount > 1
  /\ terminals[2].state.operations # <<>>
  /\ state.operationCount = 0

\* C12: in every reachable state, the one in which `before` or
\* OP_CHECKMULTISIG has just set exceededMaximumOperationCount included,
\* operationCount is at most 201.
C12_OperationCountWithinLimit == state.operationCount <= maximumOperationCount

C14_HaltsWithinLengthPlusOne ==
  /\ [](/\ taken <= Len(state.script) + 1
        /\ state.ip <= Len(state.script)
        /\ taken >= Len(state.script) + 1 => ~continue(state))
  /\ [][taken' = taken + 1 => state'.ip > state.ip]_vars

\* a phase on a non-empty initial stack has halted, without error, after as
\* many steps as its script has bytes
C14_Witness ==
  /\ pc = "done"
  /\ state.error = NoError
  /\ Len(state.script) >= 3
  /\ taken = Len(state.script)
  /\ phases[1].stack # <<>>

\* C15: in every reachable state -1 <= ip <= script.length, also right
\* after a constant or a variable push has moved ip to the end of its
\* payload; and when ip = script.length the evaluation halts.
C15_IpWithinScript ==
  /\ state.ip >= -1
  /\ state.ip <= Len(state.script)
  /\ state.ip = Len(state.script) => ~continue(state)

\* OP_PUSHDATA1 has just pushed the last bytes of the script: ip is the
\* script's length
C15_Witness ==
  /\ pc = "vm"
  /\ state.error = NoError
  /\ dispatched # <<>>
  /\ At(state.script, Last(dispatched)) = OP_PUSHDATA1
  /\ state.ip = Len(state.script)
  /\ state.ip > Last(dispatched) + maximumPushDataConstant

\* C16: scenario S1 (a pay-to-public-key-hash locking script, unlocked by
\* <sig> <pk>) evaluates to the stack [0x01] with no error, the locking
\* phase having counted 5 operations.
C16_ScenarioS1Succeeds ==
  (program \in ScenarioS1 /\ mode = "evaluate" /\ pc = "done") =>
    /\ outcome = "returned"
    /\ result.error = NoError
    /\ StackNow(result) = << <<1>> >>
    /\ lockingResult.operationCount = 5

\* the script index a step from the current state dispatches
NextIp == before(Machine(state, heap)).state.ip

\* a step from the current state dispatches `opcode`
StepDispatches(opcode) ==
  /\ taken' = taken + 1
  /\ Dispatches(Machine(state, heap))
  /\ At(state.script, NextIp) = opcode

\* C17: OP_CHECKSIG on a validly encoded public key above a validly encoded
\* signature replaces the two by 0x01 or by the empty element, as the
\* verifier says, never sets an error, and leaves the elements below as
\* they are; in scenario S2 (the signature of another digest) the program
\* ends with no error and is not valid.
C17_CheckSigPushesVerdict ==
  /\ [][LET stack == StackNow(state)
            n == Len(stack)
        IN  (/\ StepDispatches(OP_CHECKSIG)
             /\ n >= 2
             /\ isValidPublicKeyEncoding(stack[n])
             /\ isValidSignatureEncoding(stack[n - 1])) =>
              /\ state'.error = NoError
              /\ StackNow(state)' = SubSeq(stack, 1, n - 2)
                   \o << IF SignatureVerifies(state, stack[n - 1], stack[n])
                         THEN <<1>> ELSE <<>> >>]_vars
  /\ []((program \in ScenarioS2 /\ pc = "done") =>
          /\ outcome = "returned"
          /\ result.error = NoError
          /\ ~validateBitcoinCashAuthenticationProgramState(Machine(result, heap)))

\* the operands of an OP_CHECKMULTISIG as they lie on `stack`:
\* ... bug sig_1 .. sig_m m key_1 .. key_n n
MultisigOperands(stack) ==
  LET len == Len(stack)
      nParsed == IF len >= 1 THEN parseBytesAsScriptNumber(stack[len])
                 ELSE [error |-> TRUE, value |-> 0]
      n == nParsed.value
      mAt == len - n - 1
      mParsed == IF ~nParsed.error /\ n >= 0 /\ mAt >= 1
                 THEN parseBytesAsScriptNumber(stack[mAt])
                 ELSE [error |-> TRUE, value |-> 0]
      m == mParsed.value
      bugAt == mAt - m - 1
  IN  IF ~mParsed.error /\ m >= 0 /\ bugAt >= 1
      THEN [present |-> TRUE,
            n |-> n,
            m |-> m,
            publicKeys |-> SubSeq(stack, mAt + 1, len - 1),
            signatures |-> SubSeq(stack, bugAt + 1, mAt - 1),
            bug |-> stack[bugAt],
            below |-> SubSeq(stack, 1, bugAt - 1)]
      ELSE [present |-> FALSE, n |-> 0, m |-> 0, publicKeys |-> <<>>,
            signatures |-> <<>>, bug |-> <<>>, below |-> <<>>]

\* m validly encoded signatures and n validly encoded public keys, with
\* 1 <= m <= n <= 20
WellFormedMultisig(operands) ==
  /\ operands.present
  /\ 1 <= operands.m
  /\ operands.m <= operands.n
  /\ operands.n <= maximumPublicKeys
  /\ \A i \in 1..operands.n : isValidPublicKeyEncoding(operands.publicKeys[i])
  /\ \A i \in 1..operands.m : isValidSignatureEncoding(operands.signatures[i])

\* the signatures verify, in order, under an order-preserving selection of
\* as many distinct public keys
VerifyUnderOrderedSelection(st, signatures, publicKeys) ==
  \E select \in [1..Len(signatures) -> 1..Len(publicKeys)] :
    /\ \A i, j \in 1..Len(signatures) : i < j => select[i] < select[j]
    /\ \A i \in 1..Len(signatures) :
         SignatureVerifies(st, signatures[i], publicKeys[select[i]])

\* C18: with n validly encoded public keys, m validly encoded signatures
\* (1 <= m <= n <= 20) and an empty protocol bug value, OP_CHECKMULTISIG
\* pushes true if and only if the signatures verify, in order, under an
\* order-preserving selection of m distinct keys; otherwise it pushes false.
C18_MultisigAcceptsOrderedSelection ==
  [][LET operands == MultisigOperands(StackNow(state))
     IN  (/\ StepDispatches(OP_CHECKMULTISIG)
          /\ WellFormedMultisig(operands)
          /\ operands.bug = <<>>
          /\ state.operationCount + 1 + operands.n <= maximumOperationCount) =>
           /\ state'.error = NoError
           /\ StackNow(state)' = Append(operands.below,
                booleanToScriptNumber(
                  VerifyUnderOrderedSelection(state, operands.signatures,
                                              operands.publicKeys)))]_vars

DeclaredPushLength(script, at, lengthBytes) ==
  LittleEndian([i \in 1..lengthBytes |-> At(script, at + i)])

PushFullyPresent(script, at, lengthBytes) ==
  /\ at + lengthBytes < Len(script)
  /\ at + lengthBytes + DeclaredPushLength(script, at, lengthBytes) < Len(script)

\* C20: OP_PUSHDATA1 with a fully present payload of at most 75 bytes and
\* OP_PUSHDATA2 with a fully present payload of at most 255 bytes fail with
\* nonMinimalPush and push nothing; a program of scenario S3, whose script
\* contains OP_PUSHDATA1 0x01 0x05, ends with error nonMinimalPush.
C20_NonMinimalPushRejected ==
  /\ [][/\ (/\ StepDispatches(OP_PUSHDATA1)
            /\ PushFullyPresent(state.script, NextIp, 1)
            /\ DeclaredPushLength(state.script, NextIp, 1) <= maximumPushDataConstant) =>
             /\ state'.error = "nonMinimalPush"
             /\ StackNow(state)' = StackNow(state)
        /\ (/\ StepDispatches(OP_PUSHDATA2)
            /\ PushFullyPresent(state.script, NextIp, 2)
            /\ DeclaredPushLength(state.script, NextIp, 2) < highestRepresentableNumberIn(1)) =>
             /\ state'.error = "nonMinimalPush"
             /\ StackNow(state)' = StackNow(state)]_vars
  /\ []((program \in ScenarioS3 /\ pc = "done") =>
          (outcome = "returned" /\ result.error = "nonMinimalPush"))


\* the payload the push opcode at index `at` of `script` carries as the
\* encoding is written down (spec section 4.2): the bytes after the opcode
\* of OP_PUSHBYTES_N, the bytes after the length field of OP_PUSHDATA1/2/4.
\* `present` tells whether the length field and the payload lie in the script.
PushLengthBytes(opcode) ==
  IF opcode = OP_PUSHDATA1 THEN 1
  ELSE IF opcode = OP_PUSHDATA2 THEN 2
  ELSE IF opcode = OP_PUSHDATA4 THEN 4
  ELSE 0

EncodedPush(script, at) ==
  LET opcode == At(script, at)
      lengthBytes == PushLengthBytes(opcode)
      fieldPresent == at + lengthBytes < Len(script)
      length == IF lengthBytes = 0 THEN opcode
                ELSE IF ~fieldPresent THEN 0
                ELSE IF lengthBytes = 4 /\ At(script, at + 4) >= 64
                  THEN LengthBeyondEveryScript
                ELSE DeclaredPushLength(script, at, lengthBytes)
      present == fieldPresent /\ at + lengthBytes + length < Len(script)
  IN  [fieldPresent |-> fieldPresent,
       length |-> length,
       present |-> present,
       payload |-> IF present
                   THEN SubSeq(script, at + lengthBytes + 2, at + lengthBytes + 1 + length)
                   ELSE <<>>]

\* the one opcode that pushes `payload` minimally
MinimalPushOpcode(payload) ==
  IF payload = <<>> THEN OP_0
  ELSE IF Len(payload) = 1 /\ payload[1] \in 1..16 THEN OP_1 + (payload[1] - 1)
  ELSE IF payload = <<129>> THEN OP_1NEGATE
  ELSE IF Len(payload) <= maximumPushDataConstant THEN Len(payload)
  ELSE IF Len(payload) < highestRepresentableNumberIn(1) THEN OP_PUSHDATA1
  ELSE OP_PUSHDATA2

\* a step from the current state dispatches one of OP_PUSHBYTES_1 ..
\* OP_PUSHBYTES_75, OP_PUSHDATA1, OP_PUSHDATA2, OP_PUSHDATA4
StepDispatchesDataPush ==
  \E opcode \in OP_PUSHBYTES_1..OP_PUSHDATA4 : StepDispatches(opcode)

\* C21: a data push whose payload (of at most 520 bytes) is fully present is
\* accepted when its opcode is the minimal encoding of that payload and
\* fails with nonMinimalPush otherwise: OP_PUSHBYTES_1 carrying one byte that
\* encodes a scalar in -1..16 fails, and so does OP_PUSHDATA1 carrying 75
\* bytes or fewer, and OP_PUSHDATA2 carrying 255 bytes or fewer.
C21_PushMinimality ==
  [][LET push == EncodedPush(state.script, NextIp)
     IN  (/\ StepDispatchesDataPush
          /\ At(state.script, NextIp) # OP_PUSHDATA4
          /\ push.present
          /\ push.length <= maximumPushSize) =>
           state'.error = (IF At(state.script, NextIp) = MinimalPushOpcode(push.payload)
                           THEN NoError ELSE "nonMinimalPush")]_vars


\* two elements are the same bytes: as long as each other, and equal at
\* every position
SameBytes(a, b) == Len(a) = Len(b) /\ \A i \in 1..Len(a) : a[i] = b[i]

\* C22: OP_EQUAL on a stack of two elements or more replaces the two top
\* elements by Script Number 1 when they are the same bytes and by Script
\* Number 0 (the empty element) when they differ in length or in a byte;
\* it sets no error and leaves the elements below as they are.
C22_EqualComparesBytes ==
  [][LET stack == StackNow(state)
         n == Len(stack)
     IN  (StepDispatches(OP_EQUAL) /\ n >= 2) =>
           /\ state'.error = NoError
           /\ StackNow(state)' =
                Append(SubSeq(stack, 1, n - 2),
                       IF SameBytes(stack[n - 1], stack[n]) THEN <<1>> ELSE <<>>)]_vars

\* OP_EQUAL has compared 0x010203 with 0x010205 above another element and
\* left the empty element in their place
C22_Witness ==
  /\ phases[1].stack = << <<7>>, <<1, 2, 3>>, <<1, 2, 5>> >>
  /\ dispatched = <<1>>
  /\ At(state.script, 1) = OP_EQUAL
  /\ state.error = NoError
  /\ StackNow(state) = << <<7>>, <<>> >>


\* the snapshots the debug driver has taken in this phase: the entry with
\* the phase label and one entry per step
PhaseSnapshots == (Len(steps) - taken)..Len(steps)

\* C23: a snapshot taken by clone equals the state it was taken of in every
\* field, the error included, and is another object: steps applied to the
\* original afterwards change no field and no stack element of the
\* snapshots of the phase, and a step applied to the snapshot leaves the
\* original's stack as it is.
C23_CloneIsIndependent ==
  /\ []((mode = "debug" /\ pc # "done") =>
          LET snapshot == Last(steps).state
          IN  /\ [snapshot EXCEPT !.stack = 0] = [state EXCEPT !.stack = 0]
              /\ heap[snapshot.stack] = heap[state.stack]
              /\ snapshot.stack # state.stack
              /\ continue(snapshot) =>
                   step(Machine(snapshot, heap)).heap[state.stack] = heap[state.stack])
  /\ [][(mode = "debug" /\ taken' = taken + 1) =>
          \A i \in PhaseSnapshots :
            /\ steps'[i] = steps[i]
            /\ heap'[steps[i].state.stack] = heap[steps[i].state.stack]]_vars

\* the original has pushed, popped and failed since the first snapshot of
\* the phase was taken: the last snapshot holds its error, the first one is
\* as it was taken
C23_Witness ==
  /\ mode = "debug"
  /\ pc # "done"
  /\ taken >= 2
  /\ state.error # NoError
  /\ Last(steps).state.error = state.error
  /\ heap[steps[Len(steps) - 1].state.stack] # heap[state.stack]
  /\ heap[steps[Len(steps) - taken].state.stack] = Last(phases).stack
  /\ steps[Len(steps) - taken].state.error = NoError


\* C24: in every state of every phase the stack holds at most 1000
\* elements: a push onto a stack of 1000 elements does not leave an
\* error-free state with 1001 elements.
C24_StackWithinLimit ==
  /\ [](Len(phases[Len(phases)].stack) <= maximumStackDepth =>
          Len(StackNow(state)) <= maximumStackDepth)
  /\ [][(taken' = taken + 1 /\ Len(StackNow(state)') > maximumStackDepth) =>
          state'.error # NoError]_vars


\* the unlocking phase's operations hold an opcode of OP_16 or above
ExecutedNonPush(operations) == \E i \in 1..Len(operations) : operations[i] >= OP_16

\* C25: under debug, with a locking script of the P2SH shape whose phase
\* ended without error, when the unlocking phase executed an opcode >= OP_16
\* or left an empty stack the steps returned are the unlocking steps, the
\* locking steps and then one entry with asm '[P2SH error]' holding the
\* locking result, described as the push-only failure if the unlocking
\* phase was not push-only and as the empty-stack failure otherwise; no
\* redeem script is evaluated.
C25_P2shErrorStep ==
  ( /\ mode = "debug"
    /\ pc = "done"
    /\ isPayToScriptHash(program.lockingScript)
    /\ LockingEnded
    /\ terminals[2].state.error = NoError
    /\ \/ ExecutedNonPush(terminals[1].state.operations)
       \/ terminals[1].stack = <<>> )
  => LET n == Len(steps)
         j == CHOOSE i \in 1..n : steps[i].description = PhaseLocking
     IN  /\ outcome = "returned"
         /\ Len(phases) = 2
         /\ \A i \in 1..n : steps[i].description # PhaseP2sh
         /\ steps[1].description = PhaseUnlocking
         /\ \E i \in 1..n : steps[i].description = PhaseLocking
         /\ \A i \in 2..(j - 1) :
              steps[i].asm = "operator" /\ steps[i].state.script = program.unlockingScript
         /\ steps[j - 1].state.operations = terminals[1].state.operations
         /\ \A i \in (j + 1)..(n - 1) :
              steps[i].asm = "operator" /\ steps[i].state.script = program.lockingScript
         /\ steps[n - 1].state = lockingResult
         /\ SameState(steps[n - 1].state, terminals[2].state)
         /\ steps[n] = DebuggingStep(P2shErrorAsm,
                                     IF ExecutedNonPush(terminals[1].state.operations)
                                     THEN P2shErrorPushOnly ELSE P2shErrorEmptyStack,
                                     lockingResult)
         /\ \A i \in 1..(n - 1) : steps[i].asm # P2shErrorAsm

\* a debug run has ended on the push-only failure after an error-free
\* locking phase of a P2SH script
C25_Witness ==
  /\ mode = "debug"
  /\ pc = "done"
  /\ isPayToScriptHash(program.lockingScript)
  /\ LockingEnded
  /\ terminals[2].state.error = NoError
  /\ ExecutedNonPush(terminals[1].state.operations)
  /\ Last(steps).asm = P2shErrorAsm
  /\ Last(steps).description = P2shErrorPushOnly
  /\ Len(steps) >= 6


\* C26: a data push that succeeds pushes exactly its payload: the N bytes
\* after the opcode of OP_PUSHBYTES_N, the K bytes after the length field of
\* OP_PUSHDATA1 and OP_PUSHDATA2, K being the little-endian value of that
\* field; the other stack elements stay as they are and ip is left on the
\* last payload byte, so that the next opcode is the byte after the payload.
C26_PushPushesPayload ==
  [][LET push == EncodedPush(state.script, NextIp)
     IN  (/\ StepDispatchesDataPush
          /\ At(state.script, NextIp) # OP_PUSHDATA4
          /\ state'.error = NoError) =>
           /\ push.present
           /\ StackNow(state)' = Append(StackNow(state), push.payload)
           /\ state'.ip = NextIp + PushLengthBytes(At(state.script, NextIp)) + push.length]_vars


\* C27: a data push whose length field or payload is cut short by the end
\* of the script fails with malformedPush, whatever length it declares, and
\* leaves the stack and ip as they were when the operator was entered.
C27_TruncatedPushIsMalformed ==
  [][(/\ StepDispatchesDataPush
      /\ ~EncodedPush(state.script, NextIp).present) =>
       /\ state'.error = "malformedPush"
       /\ StackNow(state)' = StackNow(state)
       /\ state'.ip = NextIp]_vars


\* C28: a variable push whose declared payload is fully present and longer
\* than 520 bytes fails with exceedsMaximumPush; OP_PUSHDATA2 with a payload
\* of exactly 520 bytes is accepted and pushes it; no push places an element
\* longer than 520 bytes on the stack.
C28_PushSizeLimit ==
  [][LET push == EncodedPush(state.script, NextIp)
         opcode == At(state.script, NextIp)
     IN  StepDispatchesDataPush =>
           /\ (opcode >= OP_PUSHDATA1 /\ push.present /\ push.length > maximumPushSize) =>
                state'.error = "exceedsMaximumPush"
           /\ (opcode = OP_PUSHDATA2 /\ push.present /\ push.length = maximumPushSize) =>
                (state'.error = NoError /\ Len(Last(StackNow(state)')) = maximumPushSize)
           /\ Len(StackNow(state)') > Len(StackNow(state)) =>
                Len(Last(StackNow(state)')) <= maximumPushSize]_vars


PushErrors == {"malformedPush", "nonMinimalPush", "exceedsMaximumPush"}

\* C29: OP_PUSHDATA4 never succeeds: wherever it is dispatched, the state
\* it returns has error malformedPush, nonMinimalPush or exceedsMaximumPush
\* and the stack is as it was.
C29_PushData4NeverSucceeds ==
  [][StepDispatches(OP_PUSHDATA4) =>
       /\ state'.error \in PushErrors
       /\ StackNow(state)' = StackNow(state)]_vars

\* OP_PUSHDATA4 has failed as non-minimal on a payload that is all there
C29_Witness ==
  /\ dispatched # <<>>
  /\ At(state.script, Last(dispatched)) = OP_PUSHDATA4
  /\ state.error = "nonMinimalPush"
  /\ Len(state.script) >= Last(dispatched) + 4 + OP_PUSHDATA4
  /\ StackNow(state) = phases[1].stack


\* the canonical script number of the scalar a numeric push opcode stands for
ScalarElement(opcode) ==
  IF opcode = OP_1NEGATE THEN <<129>>
  ELSE IF opcode = OP_0 THEN <<>>
  ELSE <<opcode - (OP_1 - 1)>>

\* C30: each numeric push pushes the canonical script number of its own
\* scalar (OP_1NEGATE 0x81, OP_0 the empty element, OP_k the byte k for k in
\* 1..16), sets no error, and changes neither ip nor the elements already
\* on the stack.
C30_NumericPushPushesScalar ==
  [][\A opcode \in {OP_1NEGATE, OP_0} \cup (OP_1..OP_16) :
       StepDispatches(opcode) =>
         /\ state'.error = NoError
         /\ StackNow(state)' = Append(StackNow(state), ScalarElement(opcode))
         /\ state'.ip = NextIp]_vars

\* OP_1NEGATE and then OP_16 have pushed 0x81 and 0x10 above an element
C30_Witness ==
  /\ At(state.script, 1) = OP_1NEGATE
  /\ At(state.script, 2) = OP_16
  /\ dispatched = <<1, 2>>
  /\ state.error = NoError
  /\ StackNow(state) = << <<7>>, <<129>>, <<16>> >>


\* C31: OP_HASH160 on a non-empty stack replaces the top element, the empty
\* element included, by the ripemd160 digest of its sha256 digest and
\* leaves the elements below as they are; on an empty stack it fails with
\* emptyStack.
C31_Hash160ReplacesTop ==
  [][LET stack == StackNow(state)
     IN  StepDispatches(OP_HASH160) =>
           IF stack = <<>>
           THEN state'.error = "emptyStack"
           ELSE /\ state'.error = NoError
                /\ Len(StackNow(state)') = Len(stack)
                /\ \A i \in 1..(Len(stack) - 1) : StackNow(state)'[i] = stack[i]
                /\ Last(StackNow(state)') = Ripemd160Hash(Sha256Hash(Last(stack)))]_vars

\* OP_HASH160 has hashed the empty element that OP_0 pushed above another
\* element
C31_Witness ==
  /\ state.script = <<OP_0, OP_0, OP_HASH160>>
  /\ dispatched = <<1, 2>>
  /\ state.error = NoError
  /\ StackNow(state) = << <<7>>, Ripemd160Hash(Sha256Hash(<<>>)) >>


\* C32: OP_CHECKSIG fails with emptyStack on fewer than two elements, with
\* invalidPublicKeyEncoding when the top element is no valid public key
\* encoding (whatever the second element is), and with
\* invalidSignatureEncoding when the top element is a valid key and the
\* second is no valid signature encoding; in these cases no result is
\* pushed: what is left of the stack is a prefix of the stack it was given.
C32_CheckSigErrors ==
  [][LET stack == StackNow(state)
         n == Len(stack)
     IN  StepDispatches(OP_CHECKSIG) =>
           /\ n < 2 => state'.error = "emptyStack"
           /\ (n >= 2 /\ ~isValidPublicKeyEncoding(stack[n])) =>
                state'.error = "invalidPublicKeyEncoding"
           /\ (/\ n >= 2
               /\ isValidPublicKeyEncoding(stack[n])
               /\ ~isValidSignatureEncoding(stack[n - 1])) =>
                state'.error = "invalidSignatureEncoding"
           /\ state'.error # NoError =>
                /\ state'.error \in {"emptyStack", "invalidPublicKeyEncoding",
                                     "invalidSignatureEncoding"}
                /\ IsPrefix(StackNow(state)', stack)]_vars

\* OP_CHECKSIG has met a malformed signature under a malformed public key
\* and reported the key
C32_Witness ==
  LET stack == phases[1].stack
      n == Len(stack)
  IN  /\ dispatched = <<1>>
      /\ At(state.script, 1) = OP_CHECKSIG
      /\ n >= 2
      /\ ~isValidPublicKeyEncoding(stack[n])
      /\ ~isValidSignatureEncoding(stack[n - 1])
      /\ state.error = "invalidPublicKeyEncoding"


\* the two counts of an OP_CHECKMULTISIG as they lie on `stack`: the key
\* count on top and, under that many keys, the signature count
MultisigCounts(stack) ==
  LET len == Len(stack)
      nParsed == IF len >= 1 THEN parseBytesAsScriptNumber(stack[len])
                 ELSE [error |-> TRUE, value |-> 0]
      nNatural == len >= 1 /\ ~nParsed.error /\ nParsed.value >= 0
      mAt == len - nParsed.value - 1
      mPresent == nNatural /\ nParsed.value <= maximumPublicKeys /\ mAt >= 1
      mParsed == IF mPresent THEN parseBytesAsScriptNumber(stack[mAt])
                 ELSE [error |-> TRUE, value |-> 0]
  IN  [nPresent |-> len >= 1,
       nNatural |-> nNatural,
       n |-> nParsed.value,
       mPresent |-> mPresent,
       mNatural |-> mPresent /\ ~mParsed.error /\ mParsed.value >= 0,
       m |-> mParsed.value]

MultisigCountErrors ==
  {"invalidNaturalNumber", "exceedsMaximumMultisigPublicKeyCount", "insufficientPublicKeys"}

\* C33: OP_CHECKMULTISIG fails with invalidNaturalNumber when the key count
\* n or the signature count m is negative or no minimal script number, with
\* exceedsMaximumMultisigPublicKeyCount when n > 20 and with
\* insufficientPublicKeys when m > n (the counts of m being read once the n
\* keys are counted as operations within the limit); for 0 <= m <= n <= 20
\* it raises none of the three.
C33_MultisigCountErrors ==
  [][LET counts == MultisigCounts(StackNow(state))
         counted == state.operationCount + 1 + counts.n <= maximumOperationCount
     IN  StepDispatches(OP_CHECKMULTISIG) =>
           /\ (counts.nPresent /\ ~counts.nNatural) =>
                state'.error = "invalidNaturalNumber"
           /\ (counts.nNatural /\ counts.n > maximumPublicKeys) =>
                state'.error = "exceedsMaximumMultisigPublicKeyCount"
           /\ (counts.mPresent /\ counted /\ ~counts.mNatural) =>
                state'.error = "invalidNaturalNumber"
           /\ (counts.mNatural /\ counted /\ counts.m > counts.n) =>
                state'.error = "insufficientPublicKeys"
           /\ (counts.mNatural /\ counts.m <= counts.n) =>
                state'.error \notin MultisigCountErrors]_vars


\* CommonAuthenticationError.exceededMaximumOperationCount, the error of
\* opCheckMultiSig's operation count
MultisigOperationCountError == "CommonAuthenticationError.exceededMaximumOperationCount"

\* C34: OP_CHECKMULTISIG with a key count n in 0..20 adds n to
\* operationCount; it fails with exceededMaximumOperationCount exactly when
\* the resulting count is greater than 201, then with the n keys popped and
\* the signature count still on the stack; at a resulting count of exactly
\* 201 it does not fail so.
C34_MultisigCountsKeys ==
  [][LET stack == StackNow(state)
         counts == MultisigCounts(stack)
         resulting == state.operationCount + 1 + counts.n
     IN  (StepDispatches(OP_CHECKMULTISIG) /\ counts.nNatural
            /\ counts.n <= maximumPublicKeys) =>
           /\ state'.operationCount = resulting
           /\ state'.error = MultisigOperationCountError
                <=> resulting > maximumOperationCount
           /\ (resulting > maximumOperationCount /\ counts.mPresent) =>
                StackNow(state)' = SubSeq(stack, 1, Len(stack) - counts.n - 1)]_vars

\* an OP_CHECKMULTISIG has brought the operation count to exactly 201 and
\* pushed its result
C34_Witness ==
  /\ pc = "done"
  /\ state.error = NoError
  /\ dispatched # <<>>
  /\ At(state.script, Last(dispatched)) = OP_CHECKMULTISIG
  /\ state.operationCount = maximumOperationCount
  /\ Len(StackNow(state)) = 1


\* C35: an OP_CHECKMULTISIG with counts 0 <= m <= n <= 20 that does not
\* fail leaves the elements below the protocol bug element as they were and
\* one boolean above them (n + m + 3 elements removed, one pushed); with
\* m = 0 (n = 0 included), an empty protocol bug element and the operation
\* count within the limit it does not fail and the boolean is true.
C35_MultisigFrame ==
  [][LET operands == MultisigOperands(StackNow(state))
         counted == state.operationCount + 1 + operands.n <= maximumOperationCount
     IN  (StepDispatches(OP_CHECKMULTISIG) /\ operands.present
            /\ operands.m <= operands.n /\ operands.n <= maximumPublicKeys) =>
           /\ state'.error = NoError =>
                \E verdict \in BOOLEAN :
                  StackNow(state)' = Append(operands.below, booleanToScriptNumber(verdict))
           /\ (operands.m = 0 /\ Len(operands.bug) = 0 /\ counted) =>
                /\ state'.error = NoError
                /\ StackNow(state)' = Append(operands.below, booleanToScriptNumber(TRUE))]_vars


RECURSIVE WalkOfSignaturesAndKeys(_, _, _, _, _)
\* the walk of signatures and keys from the end of each list: the encoding
\* error of the first mis-encoded key or signature it comes to compare, or
\* no error when it ends (all signatures matched, or fewer keys left than
\* signatures) without meeting one
WalkOfSignaturesAndKeys(st, publicKeys, signatures, remainingSignatures, remainingPublicKeys) ==
  IF remainingSignatures = 0 \/ remainingPublicKeys < remainingSignatures THEN NoError
  ELSE LET publicKey == publicKeys[remainingPublicKeys]
           bitcoinEncodedSignature == signatures[remainingSignatures]
       IN  IF ~isValidPublicKeyEncoding(publicKey) THEN "invalidPublicKeyEncoding"
           ELSE IF ~isValidSignatureEncoding(bitcoinEncodedSignature)
             THEN "invalidSignatureEncoding"
           ELSE IF SignatureVerifies(st, bitcoinEncodedSignature, publicKey)
             THEN WalkOfSignaturesAndKeys(st, publicKeys, signatures,
                                          remainingSignatures - 1, remainingPublicKeys - 1)
           ELSE WalkOfSignaturesAndKeys(st, publicKeys, signatures,
                                        remainingSignatures, remainingPublicKeys - 1)

MultisigEncodingErrors == {"invalidPublicKeyEncoding", "invalidSignatureEncoding"}

\* C36: an OP_CHECKMULTISIG with 1 <= m <= n <= 20 and an empty protocol
\* bug element fails with invalidPublicKeyEncoding or
\* invalidSignatureEncoding exactly when the walk of signatures and keys
\* comes to compare a mis-encoded key or signature, with the error of the
\* first one met (the key's before the signature's) and nothing pushed; a
\* mis-encoded key or signature the walk never reaches raises no error.
C36_LazyEncodingValidation ==
  [][LET operands == MultisigOperands(StackNow(state))
         met == WalkOfSignaturesAndKeys(state, operands.publicKeys, operands.signatures,
                                        operands.m, operands.n)
     IN  (/\ StepDispatches(OP_CHECKMULTISIG)
          /\ operands.present
          /\ 1 <= operands.m
          /\ operands.m <= operands.n
          /\ operands.n <= maximumPublicKeys
          /\ operands.bug = <<>>
          /\ state.operationCount + 1 + operands.n <= maximumOperationCount) =>
           /\ met # NoError =>
                /\ state'.error = met
                /\ IsPrefix(StackNow(state)', StackNow(state))
           /\ met = NoError => state'.error = NoError
           /\ state'.error \in MultisigEncodingErrors => state'.error = met]_vars


\* the bytes that follow the opcode at index `at` as its operand: the
\* payload of OP_PUSHBYTES_N, the length field and the payload of
\* OP_PUSHDATA1/2/4
OperandBytes(script, at) ==
  LET opcode == At(script, at)
  IN  IF opcode >= OP_PUSHBYTES_1 /\ opcode <= OP_PUSHDATA4
      THEN PushLengthBytes(opcode) + EncodedPush(script, at).length
      ELSE 0

RECURSIVE IsOpcodeIndex(_, _, _)
\* whether index i of the script holds an opcode, neither a payload byte nor
\* a length byte, the opcodes being read one after the other from index
\* `from` on
IsOpcodeIndex(script, from, i) ==
  IF from >= i THEN from = i
  ELSE IsOpcodeIndex(script, from + 1 + OperandBytes(script, from), i)

RECURSIVE MadeOfPushOpcodes(_, _)
\* every opcode of the script, read from index `from` on, is below OP_16
MadeOfPushOpcodes(script, from) ==
  IF from >= Len(script) THEN TRUE
  ELSE IF At(script, from) >= OP_16 THEN FALSE
  ELSE MadeOfPushOpcodes(script, from + 1 + OperandBytes(script, from))

\* C37: `operations` is the sequence of the opcode bytes dispatched so far
\* in the phase, in order: a step that dispatches appends the byte it
\* dispatches, which is an opcode of the script and neither a payload byte
\* nor a length byte, and no other step changes it; so the operations of a
\* script made only of push opcodes below OP_16 pass the push-only check
\* whatever its payloads hold.
C37_OperationsAreOpcodes ==
  /\ [](MadeOfPushOpcodes(state.script, 0) => isPushOnly(state.operations))
  /\ [](Len(state.operations) = Len(dispatched)
          /\ \A i \in 1..Len(dispatched) :
               state.operations[i] = At(state.script, dispatched[i]))
  /\ [][(taken' = taken + 1 /\ Dispatches(Machine(state, heap))) =>
          IsOpcodeIndex(state.script, 0, NextIp)]_vars


\* enum Phase, in the order the phases are run
PhaseLabels == <<PhaseUnlocking, PhaseLocking, PhaseP2sh>>

\* entry i of the debug output is a phase's label entry
IsPhaseLabel(i) == \E k \in 1..Len(PhaseLabels) : steps[i].description = PhaseLabels[k]

\* the number of the phase entry i of the debug output lies in: the label
\* entries up to and including entry i
PhaseOfStep(i) == Cardinality({j \in 1..i : IsPhaseLabel(j)})

\* the first `upTo` entries of the debug output are the steps of the phases
\* begun, phase after phase: each phase's steps begin with its label entry,
\* the labels come in the order unlocking, locking, P2SH, every other entry
\* is a step of the phase whose label precedes it, and within a phase ip
\* never decreases; the locking phase is there only if the unlocking phase
\* ended without error, the P2SH phase only if the locking phase ended
\* without error, the locking script has the P2SH shape, the unlocking
\* phase executed push opcodes only and left a stack that was not empty
StepsAreThePhases(upTo) ==
  /\ upTo >= 1 => steps[1].description = PhaseUnlocking
  /\ \A i \in 1..upTo :
       /\ PhaseOfStep(i) \in 1..Len(phases)
       /\ IF IsPhaseLabel(i)
          THEN /\ steps[i].description = PhaseLabels[PhaseOfStep(i)]
               /\ steps[i].state.ip = 0
          ELSE /\ steps[i].asm = "operator"
               /\ steps[i].state.script = phases[PhaseOfStep(i)].script
               /\ steps[i - 1].state.script = steps[i].state.script
               /\ steps[i - 1].state.ip <= steps[i].state.ip
  /\ (\E i \in 1..upTo : steps[i].description = PhaseLocking) =>
       /\ UnlockingEnded
       /\ terminals[1].state.error = NoError
  /\ (\E i \in 1..upTo : steps[i].description = PhaseP2sh) =>
       /\ LockingEnded
       /\ terminals[2].state.error = NoError
       /\ isPayToScriptHash(program.lockingScript)
       /\ ~ExecutedNonPush(terminals[1].state.operations)
       /\ terminals[1].stack # <<>>

\* C38 as stated: the debug output is the concatenation of the unlocking
\* phase's steps, the locking phase's steps (only if the unlocking phase
\* ended without error) and the P2SH phase's steps (only if the locking
\* phase ended without error and the locking script has the P2SH shape with
\* its prerequisites met), each beginning with the phase's label entry,
\* without interleaving and with ip never decreasing within a phase.
C38_DebugOutputIsPhaseSteps == mode = "debug" => StepsAreThePhases(Len(steps))

\* C38, amended: the debug output is that concatenation, followed by one
\* '[P2SH error]' entry when the locking phase of a P2SH-shaped script ended
\* without error and a P2SH prerequisite is not met.
C38_DebugOutputIsPhaseStepsThenError ==
  mode = "debug" =>
    IF steps # <<>> /\ Last(steps).asm = P2shErrorAsm
    THEN /\ StepsAreThePhases(Len(steps) - 1)
         /\ pc = "done"
         /\ Len(phases) = 2
         /\ terminals[2].state.error = NoError
         /\ isPayToScriptHash(program.lockingScript)
         /\ \/ ExecutedNonPush(terminals[1].state.operations)
            \/ terminals[1].stack = <<>>
    ELSE StepsAreThePhases(Len(steps))

\* a debug run has ended after the three phases, each of more than its
\* label entry
C38_Witness ==
  /\ mode = "debug"
  /\ pc = "done"
  /\ PhaseOfStep(Len(steps)) = 3
  /\ \A k \in 1..3 : Cardinality({i \in 1..Len(steps) : PhaseOfStep(i) = k}) >= 2


RECURSIVE EvaluateToEnd(_)
\* vm.evaluate: steps taken on the machine while `continue` holds
EvaluateToEnd(m) == IF continue(m.state) THEN EvaluateToEnd(step(m)) ELSE m

\* evaluateBitcoinCashAuthenticationProgram as one computation from the
\* program to the state it returns; `returned` is false when reading the
\* length of an undefined redeem script throws
evaluateBitcoinCashAuthenticationProgram(prog) ==
  LET unlocked == EvaluateToEnd(Machine(
                    createBitcoinCashProgramState(prog, prog.unlockingScript, 1), << <<>> >>))
      locked == EvaluateToEnd(Machine(
                  createBitcoinCashProgramState(prog, prog.lockingScript, unlocked.state.stack),
                  unlocked.heap))
      p2sh == evaluateP2sh(locked.heap, unlocked.state.stack)
      redeemed == EvaluateToEnd(Machine(
                    createBitcoinCashProgramState(prog, p2sh.script, p2sh.stack), p2sh.heap))
  IN  IF UnlockingFailed(unlocked.state) THEN [returned |-> TRUE, machine |-> unlocked]
      ELSE IF ~isPayToScriptHash(prog.lockingScript) THEN [returned |-> TRUE, machine |-> locked]
      ELSE IF ~p2sh.defined THEN [returned |-> FALSE, machine |-> locked]
      ELSE [returned |-> TRUE, machine |-> redeemed]

\* the state of machine m has the error, ip, operationCount, operations,
\* script and every other field of st, and a stack of the same elements
AgreesWith(st, m) ==
  /\ [st EXCEPT !.stack = 0] = [m.state EXCEPT !.stack = 0]
  /\ StackNow(st) = StackOf(m)

\* C39: for every program, the state evaluateBitcoinCashAuthenticationProgram
\* returns equals (error, stack, ip, operationCount, operations, script) the
\* state of the last step debugBitcoinCashAuthenticationProgram returns,
\* P2SH-shaped locking scripts whose locking phase errors, whose unlocking
\* script is not push-only or whose unlocking stack is empty included.
C39_EvaluateAgreesWithDebug ==
  (mode = "debug" /\ pc = "done") =>
    LET evaluated == evaluateBitcoinCashAuthenticationProgram(program)
    IN  /\ evaluated.returned
        /\ AgreesWith(Last(steps).state, evaluated.machine)


\* the operators of crypto.ts
CryptoOpcodes == {OP_HASH160, OP_CHECKSIG, OP_CHECKMULTISIG}

\* C40: when OP_HASH160, OP_CHECKSIG or OP_CHECKMULTISIG fails, the state
\* it leaves differs from the state it was entered with (the one `before`
\* left) only in `error`, and the stack holds the elements the operator was
\* given: none has been consumed.
C40_CryptoErrorsConsumeNothing ==
  [][\A opcode \in CryptoOpcodes :
       (StepDispatches(opcode) /\ state'.error # NoError) =>
         /\ [state' EXCEPT !.error = NoError] = before(Machine(state, heap)).state
         /\ StackNow(state)' = StackNow(state)]_vars

====
